---- MODULE Spec2Model ----
(***************************************************************************)
(* A model of the CHAI facility-assessment portal: the score aggregation   *)
(* of the report generators (utils.py), the overall-score computation of   *)
(* submit_assessment (app.py), the validator (validators.py) and the       *)
(* question specification (TOOL_SECTIONS, PMTCT_ASSESSMENT).               *)
(*                                                                         *)
(* Conventions.                                                            *)
(*  - A dictionary key such as "supply_chain_eid" is the sequence of its   *)
(*    '_'-separated words, <<"supply","chain","eid">>, so that             *)
(*    k.startswith(key + '_') is "key is a proper prefix of k".            *)
(*  - A JSON value is a record [t, n, s]: t is its type tag ("absent" for  *)
(*    a key the dictionary does not hold, "none", "int", "str"), n the     *)
(*    number of an int, s the characters of a str.                         *)
(*  - Percentages of the report summary are kept in tenths of a percent    *)
(*    (75.0 is 750), which is what round(x, 1) can return.                 *)
(***************************************************************************)
EXTENDS Integers, Sequences, FiniteSets, TLC

VARIABLES
    scores,               \* assessment_data['scores'] of the request
    section_definitions,  \* the keys of assessment_data['section_definitions'], in order
    summary,              \* what the last report summary computed
    response,             \* what the last request answered
    assessments,          \* the rows of the assessments table
    evalIn,               \* input of the scoring evaluator
    evalOut,              \* its result
    callIn,               \* arguments of a function called on its own
    callOut,              \* what it returned
    SESSION_VERSION,      \* Config.SESSION_VERSION of the running deployment
    session,              \* the client's Flask session
    participants,         \* the rows of the participants table
    handlers,             \* the submit_assessment calls in progress, one per thread
    files,                \* what each path of the temporary directory holds
    rate_limit_data,      \* app.rate_limit_data: client IP -> times of its requests
    now,                  \* time.time()
    reached               \* endpoint, client, time -> how often the view function ran

reportVars == <<scores, section_definitions, summary, response, assessments>>
evalVars == <<evalIn, evalOut>>
callVars == <<callIn, callOut>>
webVars == <<SESSION_VERSION, session, participants, handlers>>
hostVars == <<files, rate_limit_data, now, reached>>

vars == <<reportVars, evalVars, callVars, webVars, hostVars>>

\* no function has been called
NoCall == [fn |-> "none"]

----------------------------------------------------------------------------
(* JSON values *)

Absent == [t |-> "absent", n |-> 0, s |-> <<>>]
NoneV == [t |-> "none", n |-> 0, s |-> <<>>]
IntV(i) == [t |-> "int", n |-> i, s |-> <<>>]
StrV(chars) == [t |-> "str", n |-> 0, s |-> chars]

\* the largest grade-like number a request of the model carries (validator: 0-5)
MaxNumericScore == 5

\* a percentage-sized number, which the validator accepts as well (0-100)
PercentScore == 100

\* PercentScore + 1 is a number validate_assessment_data refuses
NumericScores == (0..MaxNumericScore) \cup {PercentScore, PercentScore + 1}

\* "N/A", "", "yes" and the digit string "3"
StringScores == {<<"N", "/", "A">>, <<>>, <<"y", "e", "s">>, <<"3">>}

ScoreValues ==
    {Absent, NoneV} \cup {IntV(i) : i \in NumericScores} \cup {StrV(c) : c \in StringScores}

----------------------------------------------------------------------------
(* Section keys *)

art_pmtct == <<"art", "pmtct">>
patient_tracking == <<"patient", "tracking">>
supply_chain == <<"supply", "chain">>
supply_chain_eid == <<"supply", "chain", "eid">>

\* the keys of TOOL_SECTIONS, in the order of the literal
TOOL_SECTIONS ==
    << <<"service", "delivery">>, <<"human", "resources">>, supply_chain,
       <<"data", "management">>, <<"quality", "improvement">>,
       <<"triple", "elimination", "treatment">>, art_pmtct,
       <<"quality", "pmtct">>, patient_tracking, <<"adherence", "support">>,
       <<"facility", "linkage">>, <<"sti", "screening">>,
       <<"early", "infant", "diagnosis">>, <<"ctx", "hei">>,
       <<"tracking", "hei">>, <<"enrolment", "eid", "art">>,
       <<"hei", "eid", "registers">>, supply_chain_eid,
       <<"supply", "chain", "pmtct">>, <<"supply", "chain", "syphilis">>,
       <<"supply", "chain", "hepb">>, <<"human", "resources", "delivery">>,
       <<"registers">>, <<"patient", "records">> >>

\* the section_ids list written out in WordGenerator._create_summary_section
WORD_SECTION_IDS ==
    << <<"triple", "elimination", "treatment">>, art_pmtct, <<"quality", "pmtct">>,
       patient_tracking, <<"adherence", "support">>, <<"facility", "linkage">>,
       <<"sti", "screening">>, <<"early", "infant", "diagnosis">>,
       <<"ctx", "hei">>, <<"tracking", "hei">>, <<"enrolment", "eid", "art">>,
       <<"hei", "eid", "registers">>, supply_chain_eid,
       <<"supply", "chain", "pmtct">>, <<"supply", "chain", "syphilis">>,
       <<"supply", "chain", "hepb">>, <<"patient", "records">> >>

\* the keys a scores map of the model may hold
ScoreKeys == {art_pmtct, patient_tracking, supply_chain_eid}

\* the section_definitions a caller of the generators passes: none (submit-assessment
\* passes the request as it came), a few sections, or TOOL_SECTIONS (the downloads)
SectionDefinitionChoices ==
    { <<>>, <<art_pmtct>>, <<art_pmtct, patient_tracking>>,
      <<art_pmtct, patient_tracking, supply_chain_eid>>, TOOL_SECTIONS }

ScoreMaps == [ScoreKeys -> ScoreValues]

----------------------------------------------------------------------------
(* dict and str primitives *)

\* key in scores
InScores(sc, key) == key \in DOMAIN sc /\ sc[key] # Absent

\* k.startswith(key + '_')
StartsWithKey(k, key) == Len(k) > Len(key) /\ SubSeq(k, 1, Len(key)) = key

\* key in scores or any(k.startswith(key + '_') for k in scores.keys())
HasData(sc, key) ==
    InScores(sc, key) \/ \E k \in DOMAIN sc : sc[k] # Absent /\ StartsWithKey(k, key)

\* [key for key in section_ids if key in scores or any(...)]
SectionsWithData(sc, section_ids) ==
    SelectSeq(section_ids, LAMBDA key : HasData(sc, key))

DigitValue ==
    ("0" :> 0) @@ ("1" :> 1) @@ ("2" :> 2) @@ ("3" :> 3) @@ ("4" :> 4) @@
    ("5" :> 5) @@ ("6" :> 6) @@ ("7" :> 7) @@ ("8" :> 8) @@ ("9" :> 9)

RECURSIVE DigitsValue(_)
DigitsValue(chars) ==
    IF chars = <<>> THEN 0
    ELSE 10 * DigitsValue(SubSeq(chars, 1, Len(chars) - 1)) + DigitValue[chars[Len(chars)]]

\* float(x): [ok, val]; ok = FALSE is ValueError or TypeError.  Of the str syntax
\* float accepts, the model's strings hold only plain digit strings.
Float(x) ==
    IF x.t = "int" THEN [ok |-> TRUE, val |-> x.n]
    ELSE IF x.t = "str" /\ x.s # <<>> /\ \A i \in 1..Len(x.s) : x.s[i] \in DOMAIN DigitValue
         THEN [ok |-> TRUE, val |-> DigitsValue(x.s)]
         ELSE [ok |-> FALSE, val |-> 0]

\* score in ['N/A', '', None]
IsNotScored(score) ==
    \/ score.t = "none"
    \/ score.t = "str" /\ score.s \in {<<"N", "/", "A">>, <<>>}

\* float(score) if score not in ['N/A', '', None] else 0
ScoreToFloat(score) ==
    IF IsNotScored(score) THEN [ok |-> TRUE, val |-> 0] ELSE Float(score)

----------------------------------------------------------------------------
(* The summary of a report: _create_summary_sheet and _create_summary_section *)

(* Python floats are IEEE 754 doubles.  A positive double is [m, e]: m its 53-bit    *)
(* significand as a sequence of bits, least significant first, e the exponent of    *)
(* the lowest bit; its value is m * 2^e.                                            *)

\* n zero bits
Zeros(n) == IF n <= 0 THEN <<>> ELSE [i \in 1..n |-> 0]

\* the bits of a natural number, least significant first
RECURSIVE NatBits(_)
NatBits(c) == IF c = 0 THEN <<>> ELSE <<c % 2>> \o NatBits(c \div 2)

\* the w low bits of a natural number
FixedBits(c, w) == [i \in 1..w |-> (c \div 2^(i - 1)) % 2]

\* the natural number of a bit sequence (short ones only)
RECURSIVE BitsNat(_)
BitsNat(b) == IF b = <<>> THEN 0 ELSE b[1] + 2 * BitsNat(Tail(b))

\* the arithmetic on bit sequences goes ChunkBits bits at a time
ChunkBits == 12

\* b * k + carry for a small k
RECURSIVE MulBits(_, _, _)
MulBits(b, k, carry) ==
    IF b = <<>> THEN NatBits(carry)
    ELSE LET w == IF Len(b) < ChunkBits THEN Len(b) ELSE ChunkBits
             v == BitsNat(SubSeq(b, 1, w)) * k + carry
         IN  FixedBits(v % 2^w, w) \o MulBits(SubSeq(b, w + 1, Len(b)), k, v \div 2^w)

\* b + 1
AddOne(b) ==
    LET zeros == {i \in 1..Len(b) : b[i] = 0}
    IN  IF zeros = {} THEN Zeros(Len(b)) \o <<1>>
        ELSE LET z == CHOOSE i \in zeros : \A j \in zeros : i <= j
             IN  [i \in 1..Len(b) |-> IF i < z THEN 0 ELSE IF i = z THEN 1 ELSE b[i]]

\* the width of a double's significand
SignificandBits == 53

\* b * 2^e rounded to a double: round to nearest, ties to even
RoundToDouble(b, e) ==
    LET k == Len(b) - SignificandBits
    IN  IF k <= 0
        THEN [m |-> Zeros(-k) \o b, e |-> e + k]
        ELSE LET kept == SubSeq(b, k + 1, Len(b))
                 half == b[k] = 1
                 sticky == \E i \in 1..(k - 1) : b[i] = 1
                 m == IF half /\ (sticky \/ kept[1] = 1) THEN AddOne(kept) ELSE kept
             IN  IF Len(m) > SignificandBits
                 THEN [m |-> Tail(m), e |-> e + k + 1]
                 ELSE [m |-> m, e |-> e + k]

\* count bits of the fraction n / d for n < d, least significant first, below them
\* one more bit that says whether anything is left
RECURSIVE QuotientBits(_, _, _)
QuotientBits(n, d, count) ==
    IF count = 0 THEN <<IF n # 0 THEN 1 ELSE 0>>
    ELSE LET w == IF count < ChunkBits THEN count ELSE ChunkBits
         IN  QuotientBits((n * 2^w) % d, d, count - w) \o FixedBits((n * 2^w) \div d, w)

\* n / d for naturals n, d > 0: the quotient is scaled into [1, 2), divided to one bit
\* more than a significand holds, and rounded
RECURSIVE FloatDiv(_, _, _)
FloatDiv(n, d, e) ==
    IF n < d THEN FloatDiv(2 * n, d, e - 1)
    ELSE IF n >= 2 * d THEN FloatDiv(n, 2 * d, e + 1)
    ELSE RoundToDouble(QuotientBits(n - d, d, SignificandBits) \o <<1>>,
                       e - SignificandBits - 1)

\* x * k for a double x and a small natural k
FloatMul(x, k) == RoundToDouble(MulBits(x.m, k, 0), x.e)

\* round(x, 1) for a double 0 < x < 2^52, in tenths: the decimal nearest to the value
\* the double holds, ties to even
Round1(x) ==
    LET j == -x.e
        y == MulBits(x.m, 10, 0)
        padded == y \o Zeros(j + 1 - Len(y))
        whole == BitsNat(SubSeq(padded, j + 1, Len(padded)))
        half == padded[j] = 1
        sticky == \E i \in 1..(j - 1) : padded[i] = 1
    IN  IF ~half THEN whole
        ELSE IF sticky THEN whole + 1
        ELSE IF whole % 2 = 0 THEN whole ELSE whole + 1

\* round((total_scored / total_possible * 100), 1), in tenths of a percent
FloatPercentage(total_scored, total_possible) ==
    IF total_scored = 0 THEN 0
    ELSE Round1(FloatMul(FloatDiv(total_scored, total_possible, 0), 100))

\* the largest total_scored and the total_possible values a report of the model
\* computes: every score key at the largest score value, 4 points a section
MaxTotalScored == Cardinality(ScoreKeys) * (PercentScore + 1)
Denominators == {4 * k : k \in 1..Len(TOOL_SECTIONS)}

\* FloatPercentage over the totals of the model, computed once
FloatPercentages ==
    [p \in (0..MaxTotalScored) \X Denominators |-> FloatPercentage(p[1], p[2])] @@ <<>>

RoundedPercentage(total_scored, total_possible) ==
    IF <<total_scored, total_possible>> \in DOMAIN FloatPercentages
    THEN FloatPercentages[<<total_scored, total_possible>>]
    ELSE FloatPercentage(total_scored, total_possible)

\* Percentage without its "if total_possible > 0" guard: the division by zero raises
\* and the summary holds no percentage (-1)
PercentageUnguarded(total_scored, total_possible) ==
    IF total_possible = 0 THEN -1 ELSE RoundedPercentage(total_scored, total_possible)

\* round((total_scored / total_possible * 100), 1) if total_possible > 0 else 0,
\* in tenths of a percent
Percentage(total_scored, total_possible) ==
    IF total_possible > 0 THEN RoundedPercentage(total_scored, total_possible) ELSE 0

\* PerformanceLevel with > where the code has >=
PerformanceLevelExclusive(percentage) ==
    IF percentage > 750 THEN "EXCELLENT"
    ELSE IF percentage > 500 THEN "GOOD"
    ELSE IF percentage > 250 THEN "NEEDS IMPROVEMENT"
    ELSE "CRITICAL"

\* the if/elif chain on percentage
PerformanceLevel(percentage) ==
    IF percentage >= 750 THEN "EXCELLENT"
    ELSE IF percentage >= 500 THEN "GOOD"
    ELSE IF percentage >= 250 THEN "NEEDS IMPROVEMENT"
    ELSE "CRITICAL"

\* the points one indicator can reach in max_score = len(scores) * 5
IndicatorMaxScore == 5

\* SectionTotalPossible taken from the 5-point scale of submit_assessment
SectionTotalPossibleFivePoint == IndicatorMaxScore

\* total_possible of the section-specific branch
SectionTotalPossible == 4

\* MissingScoreDefault with a missing section read as grade 1 (red)
MissingScoreDefaultRed == IntV(1)

\* the value scores.get(section_id, 0) falls back on
MissingScoreDefault == IntV(0)

\* scores.get(section_id, 0) of the two branches
SectionScore(sc, section_id) ==
    IF InScores(sc, section_id) THEN sc[section_id] ELSE MissingScoreDefault

\* what one pass of the for loop adds: total_possible, total_scored, scored_indicators
LoopStep(sc, section_id) ==
    LET f == ScoreToFloat(SectionScore(sc, section_id))
        counted == f.ok /\ f.val > 0
    IN  [possible |-> 4,
         scored |-> IF counted THEN f.val ELSE 0,
         indicators |-> IF counted THEN 1 ELSE 0]

RECURSIVE LoopTotals(_, _)
LoopTotals(sc, section_ids) ==
    IF section_ids = <<>> THEN [possible |-> 0, scored |-> 0, indicators |-> 0]
    ELSE LET rest == LoopTotals(sc, Tail(section_ids))
             step == LoopStep(sc, Head(section_ids))
         IN  [possible |-> step.possible + rest.possible,
              scored |-> step.scored + rest.scored,
              indicators |-> step.indicators + rest.indicators]

\* the "Calculate scores" block: the totals for section_ids, given is_section_download
\* and sections_with_data
CalculateScores(sc, section_ids, is_section_download, sections_with_data) ==
    IF is_section_download
    THEN LET f == ScoreToFloat(SectionScore(sc, sections_with_data[1]))
             total_scored == IF f.ok THEN f.val ELSE 0
         IN  [possible |-> SectionTotalPossible,
              scored |-> total_scored,
              indicators |-> IF total_scored > 0 THEN 1 ELSE 0]
    ELSE LoopTotals(sc, section_ids)

NoSummary ==
    [kind |-> "none", raised |-> FALSE, is_section_download |-> FALSE,
     section_ids |-> <<>>, sections_with_data |-> <<>>,
     total_possible |-> 0, total_scored |-> 0, scored_indicators |-> 0,
     percentage |-> 0, performance |-> "none"]

SummaryOf(kind, sc, section_ids, is_section_download, sections_with_data) ==
    IF is_section_download /\ sections_with_data = <<>>
    THEN \* sections_with_data[0] raises IndexError
         [NoSummary EXCEPT !.kind = kind, !.raised = TRUE,
                           !.is_section_download = is_section_download,
                           !.section_ids = section_ids]
    ELSE LET t == CalculateScores(sc, section_ids, is_section_download, sections_with_data)
             p == Percentage(t.scored, t.possible)
         IN  [kind |-> kind, raised |-> FALSE,
              is_section_download |-> is_section_download,
              section_ids |-> section_ids,
              sections_with_data |-> sections_with_data,
              total_possible |-> t.possible, total_scored |-> t.scored,
              scored_indicators |-> t.indicators,
              percentage |-> p, performance |-> PerformanceLevel(p)]

\* ExcelGenerator._create_summary_sheet: section_ids are the keys of section_definitions
ExcelSummary(sc, defs) ==
    LET with_data == SectionsWithData(sc, defs)
    IN  SummaryOf("excel", sc, defs, Len(with_data) = 1, with_data)

\* WordGenerator.create_assessment_word decides is_section_download from
\* section_definitions; _create_summary_section then works on its own section_ids
WordSummary(sc, defs) ==
    SummaryOf("word", sc, WORD_SECTION_IDS,
              Len(SectionsWithData(sc, defs)) = 1,
              SectionsWithData(sc, WORD_SECTION_IDS))

----------------------------------------------------------------------------
(* DataValidator.validate_assessment_data, the scores loop *)

\* the errors of one score: 0 or 1
ScoreError(score) ==
    IF score.t = "none" THEN 0
    ELSE IF score.t = "int"
         THEN IF ~((0 <= score.n /\ score.n <= 5) \/ (0 <= score.n /\ score.n <= 100))
              THEN 1 ELSE 0
         ELSE IF score.t = "str" THEN 0 ELSE 1

\* is_valid of validate_assessment_data for a request whose facility fields are all
\* present and well formed: no score of the map is refused
ValidateAssessmentData(sc) ==
    \A k \in DOMAIN sc : InScores(sc, k) => ScoreError(sc[k]) = 0

----------------------------------------------------------------------------
(* submit_assessment: the overall score *)

PresentKeys(sc) == {k \in DOMAIN sc : InScores(sc, k)}

RECURSIVE SumOver(_, _)
SumOver(sc, keys) ==
    IF keys = {} THEN 0
    ELSE LET k == CHOOSE x \in keys : TRUE
         IN  sc[k].n + SumOver(sc, keys \ {k})

\* "Calculate overall score": [raised, num, den], overall_score = num / den.
\* sum(scores.values()) raises TypeError on a None or a str.
OverallScore(sc) ==
    LET keys == PresentKeys(sc)
    IN  IF keys = {} THEN [raised |-> FALSE, num |-> 0, den |-> 1]
        ELSE IF \E k \in keys : sc[k].t # "int"
             THEN [raised |-> TRUE, num |-> 0, den |-> 1]
        ELSE LET total_score == SumOver(sc, keys)
                 max_score == Cardinality(keys) * IndicatorMaxScore
             IN  IF max_score > 0
                 THEN [raised |-> FALSE, num |-> total_score * 100, den |-> max_score]
                 ELSE [raised |-> FALSE, num |-> 0, den |-> 1]

----------------------------------------------------------------------------
(* Requests *)

\* data['facilityName'] of every request of the model
FacilityName == "Mulago"

\* the primary key a new row of a table gets
NextId(table) ==
    IF table = {} THEN 1
    ELSE 1 + (CHOOSE i \in {row.id : row \in table} : \A row \in table : row.id <= i)

\* the session of a client that is not logged in: session.get(...) is None
ClearedSession ==
    [session_version |-> 0, logged_in |-> FALSE, username |-> "", user_role |-> ""]

\* Config.SESSION_VERSION = '2.0'
InitialSessionVersion == 2

\* no submit_assessment call is in progress
Handlers == {1, 2}
IdleHandler == [pc |-> "idle"]

\* the server has just started on an empty database and nobody is logged in
WebIdle ==
    /\ SESSION_VERSION = InitialSessionVersion
    /\ session = ClearedSession
    /\ participants = {}
    /\ handlers = [w \in Handlers |-> IdleHandler]

\* the paths a caller hands to FileManager.cleanup_temp_file; "" is the empty path
TempPaths == {"report.xlsx", "report.docx", "report.pdf"}
Filepaths == TempPaths \cup {""}

\* what a path holds: nothing, a file os.remove can delete, a directory, or a file
\* whose directory refuses the deletion (os.remove raises for the last two)
PathStates == {"absent", "file", "directory", "undeletable"}

\* the client whose requests are counted (request.remote_addr)
ClientIPs == {"10.0.0.1"}

\* no temporary file exists, no request has been rate limited yet
HostIdle ==
    /\ files = [p \in TempPaths |-> "absent"]
    /\ rate_limit_data = <<>>
    /\ now = 0
    /\ reached = <<>>

\* refused_by: the decorator that answered instead of the handler; rows: the ids of
\* the table rows the answer carries
NoResponse ==
    [endpoint |-> "none", status |-> 0, success |-> FALSE, saved |-> FALSE,
     email_warning |-> FALSE, overall |-> [raised |-> FALSE, num |-> 0, den |-> 1],
     refused_by |-> "", rows |-> {}]

Answer(endpoint, status, success) ==
    [NoResponse EXCEPT !.endpoint = endpoint, !.status = status, !.success = success]

\* ExcelGenerator.create_assessment_excel called with the request as it is
CreateAssessmentExcel ==
    /\ summary' = ExcelSummary(scores, section_definitions)
    /\ response' = NoResponse
    /\ UNCHANGED <<scores, section_definitions, assessments, evalVars, callVars, webVars, hostVars>>

\* WordGenerator.create_assessment_word called with the request as it is
CreateAssessmentWord ==
    /\ summary' = WordSummary(scores, section_definitions)
    /\ response' = NoResponse
    /\ UNCHANGED <<scores, section_definitions, assessments, evalVars, callVars, webVars, hostVars>>

\* POST /download-assessment
DownloadAssessment ==
    /\ IF ~ValidateAssessmentData(scores)
       THEN /\ response' = Answer("download_assessment", 400, FALSE)
            /\ summary' = NoSummary
       ELSE LET s == ExcelSummary(scores, TOOL_SECTIONS)
            IN  /\ summary' = s
                /\ response' = IF s.raised
                               THEN Answer("download_assessment", 500, FALSE)
                               ELSE Answer("download_assessment", 200, TRUE)
    /\ UNCHANGED <<scores, section_definitions, assessments, evalVars, callVars, webVars, hostVars>>

\* POST /submit-assessment.  commit_ok: db.session.commit() succeeds; email_ok:
\* EmailService.send_email reports success.
SubmitAssessment ==
    \E commit_ok \in BOOLEAN, email_ok \in BOOLEAN :
        LET overall == OverallScore(scores)
            s == ExcelSummary(scores, section_definitions)
        IN  /\ UNCHANGED <<scores, section_definitions, evalVars, callVars, webVars, hostVars>>
            /\ IF ~ValidateAssessmentData(scores)
               THEN /\ response' = Answer("submit_assessment", 400, FALSE)
                    /\ UNCHANGED <<summary, assessments>>
               ELSE IF \E row \in assessments : row.facility_name = FacilityName
               THEN /\ response' = Answer("submit_assessment", 400, FALSE)
                    /\ UNCHANGED <<summary, assessments>>
               ELSE IF overall.raised
               THEN /\ response' = [Answer("submit_assessment", 500, FALSE)
                                       EXCEPT !.overall = overall]
                    /\ UNCHANGED <<summary, assessments>>
               ELSE /\ assessments' =
                        IF commit_ok
                        THEN assessments \cup
                             {[id |-> NextId(assessments),
                               facility_name |-> FacilityName,
                               overall_score |-> [num |-> overall.num, den |-> overall.den]]}
                        ELSE assessments
                    /\ summary' = s
                    /\ response' =
                        IF s.raised
                        THEN [Answer("submit_assessment", 500, FALSE)
                                EXCEPT !.overall = overall, !.saved = commit_ok]
                        ELSE [Answer("submit_assessment", 200, TRUE)
                                EXCEPT !.overall = overall, !.saved = commit_ok,
                                       !.email_warning = ~email_ok]

Init ==
    /\ HostIdle
    /\ scores \in ScoreMaps
    /\ section_definitions \in SectionDefinitionChoices
    /\ summary = NoSummary
    /\ response = NoResponse
    /\ assessments = {}
    /\ evalIn = [kind |-> "none", name |-> "", responses |-> <<>>, value |-> 0]
    /\ evalOut = [kind |-> "none", grade |-> "", deciding |-> "", visited |-> <<>>]
    /\ callIn = NoCall
    /\ callOut = NoCall
    /\ WebIdle

Next ==
    \/ CreateAssessmentExcel
    \/ CreateAssessmentWord
    \/ DownloadAssessment
    \/ SubmitAssessment

Spec == Init /\ [][Next]_vars

----------------------------------------------------------------------------
(* The question specification: conditional chains and threshold mappings *)

\* one entry of a direct-mapping "scoring" dict: answer -> outcome.  "yes_next": "pt_q2"
\* of PMTCT_ASSESSMENT is the outcome next with the question to go to.
Rule(answer, outcome) == [answer |-> answer, outcome |-> outcome, goto |-> ""]
RuleNext(answer, goto) == [answer |-> answer, outcome |-> "next", goto |-> goto]

\* one entry of a threshold mapping, bounds in thousandths: "<60" is Below(60000),
\* "60-79.9" is Range(60000, 79900), ">=90" is AtLeast(90000), "2" is Exactly(2000)
Below(outcome, b) == [outcome |-> outcome, op |-> "<", lo |-> b, hi |-> b]
Range(outcome, a, b) == [outcome |-> outcome, op |-> "-", lo |-> a, hi |-> b]
AtLeast(outcome, a) == [outcome |-> outcome, op |-> ">=", lo |-> a, hi |-> a]
Exactly(outcome, a) == [outcome |-> outcome, op |-> "=", lo |-> a, hi |-> a]

Question(id, depends_on, scoring) ==
    [id |-> id, depends_on |-> depends_on, type |-> "yes_no",
     scoring |-> scoring, thresholds |-> <<>>]

ThresholdQuestion(id, depends_on, thresholds) ==
    [id |-> id, depends_on |-> depends_on, type |-> "percentage",
     scoring |-> <<>>, thresholds |-> thresholds]

\* TOOL_SECTIONS['patient_tracking'] with pt_q2 'no' continuing instead of stopping
PatientTrackingNoStop ==
    << Question("pt_q1", "", <<Rule("no", "red"), Rule("yes", "next")>>),
       Question("pt_q2", "pt_q1", <<Rule("no", "next"), Rule("yes", "next")>>),
       Question("pt_q3", "pt_q2", <<Rule("no", "yellow"), Rule("yes", "next")>>),
       Question("pt_q4", "pt_q3", <<Rule("no", "light_green"), Rule("yes", "dark_green")>>) >>

\* TOOL_SECTIONS['patient_tracking']['questions']
PatientTracking ==
    << Question("pt_q1", "", <<Rule("no", "red"), Rule("yes", "next")>>),
       Question("pt_q2", "pt_q1", <<Rule("no", "yellow"), Rule("yes", "next")>>),
       Question("pt_q3", "pt_q2", <<Rule("no", "yellow"), Rule("yes", "next")>>),
       Question("pt_q4", "pt_q3", <<Rule("no", "light_green"), Rule("yes", "dark_green")>>) >>

\* TOOL_SECTIONS['facility_linkage']['questions']
FacilityLinkage ==
    << Question("fl_q1", "", <<Rule("no", "red"), Rule("yes", "next")>>),
       Question("fl_q2", "fl_q1", <<Rule("no", "yellow"), Rule("yes", "next")>>),
       Question("fl_q3", "fl_q2", <<Rule("no", "light_green"), Rule("yes", "dark_green")>>) >>

\* PMTCT_ASSESSMENT, section patient_tracking
PmtctPatientTracking ==
    << Question("pt_q1", "", <<Rule("no", "red"), RuleNext("yes", "pt_q2")>>),
       Question("pt_q2", "pt_q1", <<Rule("no", "yellow"), RuleNext("yes", "pt_q3")>>),
       Question("pt_q3", "pt_q2", <<Rule("no", "yellow"), RuleNext("yes", "pt_q4")>>),
       Question("pt_q4", "pt_q3", <<Rule("no", "light_green"), Rule("yes", "dark_green")>>) >>

\* TOOL_SECTIONS tet_q2 thresholds: <60, 60-79.9, 80-89.9, >=90
TetQ2Thresholds ==
    << Below("red", 60000), Range("yellow", 60000, 79900),
       Range("light_green", 80000, 89900), AtLeast("dark_green", 90000) >>

\* PMTCT_ASSESSMENT tet_q2 thresholds with the yellow bucket opening at 61
PmtctTetQ2ThresholdsLate ==
    << Below("red", 60000), Range("yellow", 61000, 79000),
       Range("light_green", 80000, 89000), AtLeast("dark_green", 90000) >>

\* PMTCT_ASSESSMENT tet_q2 thresholds: <60, 60-79, 80-89, >=90
PmtctTetQ2Thresholds ==
    << Below("red", 60000), Range("yellow", 60000, 79000),
       Range("light_green", 80000, 89000), AtLeast("dark_green", 90000) >>

\* PMTCT_ASSESSMENT ap_q2 thresholds: <60, 60-79, 80-89, >=90
PmtctApQ2Thresholds ==
    << Below("red", 60000), Range("yellow", 60000, 79000),
       Range("light_green", 80000, 89000), AtLeast("dark_green", 90000) >>

\* TOOL_SECTIONS as_q3 scoring with the light_green bucket running into the next one
AsQ3ScoringOverlap ==
    << Below("yellow", 60000), Range("light_green", 60000, 80000),
       AtLeast("next", 80000) >>

\* TOOL_SECTIONS as_q3 scoring: {"<60": "yellow", "60-79": "light_green", ">=80": "next"}
AsQ3Scoring ==
    << Below("yellow", 60000), Range("light_green", 60000, 79000),
       AtLeast("next", 80000) >>

\* PMTCT_ASSESSMENT as_q3 thresholds: yellow <60, light_green 60-79, continue >=80
PmtctAsQ3Thresholds ==
    << Below("yellow", 60000), Range("light_green", 60000, 79000),
       AtLeast("continue", 80000) >>

\* TOOL_SECTIONS sti_q3 scoring: {"<70": "yellow", ">=70": "next"}
StiQ3Scoring == << Below("yellow", 70000), AtLeast("next", 70000) >>

\* PMTCT_ASSESSMENT sti_q3 thresholds: yellow <70, continue >=70
PmtctStiQ3Thresholds == << Below("yellow", 70000), AtLeast("continue", 70000) >>

\* TOOL_SECTIONS eid_q4 scoring: >=3 red, 2 yellow, 1 light_green, 0 dark_green
EidQ4Scoring ==
    << AtLeast("red", 3000), Exactly("yellow", 2000),
       Exactly("light_green", 1000), Exactly("dark_green", 0) >>

\* TOOL_SECTIONS ctx_q1 scoring: >=3 red, 2 yellow, 1 light_green, 0 next
CtxQ1Scoring ==
    << AtLeast("red", 3000), Exactly("yellow", 2000),
       Exactly("light_green", 1000), Exactly("next", 0) >>

\* PMTCT_ASSESSMENT eid_q4 thresholds: dark_green 0, light_green 1, yellow 2, red >=3
PmtctEidQ4Thresholds ==
    << Exactly("dark_green", 0), Exactly("light_green", 1000),
       Exactly("yellow", 2000), AtLeast("red", 3000) >>

\* TOOL_SECTIONS['adherence_support']['questions']
AdherenceSupport ==
    << Question("as_q1", "", <<Rule("no", "red"), Rule("yes", "next")>>),
       Question("as_q2", "as_q1", <<Rule("no", "yellow"), Rule("yes", "next")>>),
       ThresholdQuestion("as_q3", "as_q2", AsQ3Scoring),
       Question("as_q4", "as_q3", <<Rule("no", "light_green"), Rule("yes", "dark_green")>>) >>

\* the sections the evaluator is run on
ChainSections ==
    [tool_patient_tracking |-> PatientTracking,
     tool_facility_linkage |-> FacilityLinkage,
     tool_adherence_support |-> AdherenceSupport,
     pmtct_patient_tracking |-> PmtctPatientTracking]

\* the percentage mappings, and the count mappings
PercentageMappings ==
    [tool_tet_q2 |-> TetQ2Thresholds,
     pmtct_tet_q2 |-> PmtctTetQ2Thresholds,
     pmtct_ap_q2 |-> PmtctApQ2Thresholds,
     tool_as_q3 |-> AsQ3Scoring,
     pmtct_as_q3 |-> PmtctAsQ3Thresholds,
     tool_sti_q3 |-> StiQ3Scoring,
     pmtct_sti_q3 |-> PmtctStiQ3Thresholds]

CountMappings ==
    [tool_eid_q4 |-> EidQ4Scoring,
     tool_ctx_q1 |-> CtxQ1Scoring,
     pmtct_eid_q4 |-> PmtctEidQ4Thresholds]

ThresholdMappings == PercentageMappings @@ CountMappings

----------------------------------------------------------------------------
(* The scoring evaluator (spec 4.1): the repository evaluates sections in its      *)
(* browser scripts, which are not among the source files; it is modelled from the  *)
(* specification and run on the question specification above.                      *)

TerminalGrades == {"red", "yellow", "light_green", "dark_green"}
ContinueOutcomes == {"next", "continue"}

\* where a bucket opens; a "<b" bucket opens below every value
LowerBound(bucket) == IF bucket.op = "<" THEN -1 ELSE bucket.lo

\* the bucket holding value: lower bound inclusive, upper bound exclusive (a bucket
\* ends where the next one opens), the top bucket unbounded above
BucketOf(thresholds, value) ==
    LET open == {i \in 1..Len(thresholds) : LowerBound(thresholds[i]) <= value}
    IN  IF open = {} THEN 0
        ELSE CHOOSE i \in open :
                 \A j \in open : LowerBound(thresholds[j]) <= LowerBound(thresholds[i])

ThresholdOutcome(thresholds, value) ==
    LET i == BucketOf(thresholds, value)
    IN  IF i = 0 THEN "none" ELSE thresholds[i].outcome

\* an answer: [a, v], a = "" unanswered, "yes", "no", or "num" with the number v
NoAnswer == [a |-> "", v |-> 0]
Said(a) == [a |-> a, v |-> 0]
Num(v) == [a |-> "num", v |-> v]

\* the outcome of one question node: [outcome, goto]
QuestionOutcome(q, answer) ==
    IF answer.a = "" THEN [outcome |-> "unanswered", goto |-> ""]
    ELSE IF q.type = "percentage"
    THEN [outcome |-> IF answer.a = "num" THEN ThresholdOutcome(q.thresholds, answer.v)
                      ELSE "unanswered",
          goto |-> ""]
    ELSE LET hits == {i \in 1..Len(q.scoring) : q.scoring[i].answer = answer.a}
         IN  IF hits = {} THEN [outcome |-> "unanswered", goto |-> ""]
             ELSE LET r == q.scoring[CHOOSE i \in hits : TRUE]
                  IN  [outcome |-> r.outcome, goto |-> r.goto]

\* the question that follows q after a continue outcome: the one named by the rule,
\* or the one whose depends_on is q
FollowingQuestion(questions, q, goto) ==
    LET next == {i \in 1..Len(questions) :
                    IF goto # "" THEN questions[i].id = goto
                    ELSE questions[i].depends_on = q.id}
    IN  IF next = {} THEN 0 ELSE CHOOSE i \in next : \A j \in next : i <= j

RECURSIVE Walk(_, _, _, _)
Walk(questions, i, responses, visited) ==
    LET q == questions[i]
        out == QuestionOutcome(q, responses[q.id])
        seen == Append(visited, q.id)
    IN  IF out.outcome = "unanswered"
        THEN [grade |-> "not_answered", deciding |-> q.id, visited |-> seen]
        ELSE IF out.outcome \in TerminalGrades
        THEN [grade |-> out.outcome, deciding |-> q.id, visited |-> seen]
        ELSE LET n == FollowingQuestion(questions, q, out.goto)
             IN  IF n = 0 \/ Len(seen) >= Len(questions)
                 THEN [grade |-> "specification_error", deciding |-> q.id, visited |-> seen]
                 ELSE Walk(questions, n, responses, seen)

\* evaluate(section_spec, responses): the walk starts at the first question
Evaluate(questions, responses) == Walk(questions, 1, responses, <<>>)

----------------------------------------------------------------------------
(* Inputs and steps of the evaluator *)

\* the largest count a numeric question is answered with
MaxCount == 10

\* percentages 0..100 in thousandths: the whole numbers and, after each, the values
\* .5, .9, .95 and .999 above it
PercentageValues ==
    {n * 1000 + d : n \in 0..99, d \in {0, 500, 900, 950, 999}} \cup {100000}

CountValues == {n * 1000 : n \in 0..MaxCount}

\* the answers given to as_q3 in a chain
ChainPercentages == {59999, 60000, 79500, 80000}

QuestionIds(questions) == {questions[i].id : i \in 1..Len(questions)}

AnswersOf(q) ==
    IF q.type = "percentage" THEN {NoAnswer} \cup {Num(v) : v \in ChainPercentages}
    ELSE {NoAnswer, Said("yes"), Said("no")}

QuestionById(questions, id) ==
    questions[CHOOSE i \in 1..Len(questions) : questions[i].id = id]

ResponseMaps(questions) ==
    {r \in [QuestionIds(questions) -> {NoAnswer, Said("yes"), Said("no")}
                                      \cup {Num(v) : v \in ChainPercentages}] :
        \A id \in QuestionIds(questions) : r[id] \in AnswersOf(QuestionById(questions, id))}

NoEval == [kind |-> "none", name |-> "", responses |-> <<>>, value |-> 0]

ChainInputs ==
    UNION {{[kind |-> "chain", name |-> s, responses |-> r, value |-> 0] :
               r \in ResponseMaps(ChainSections[s])} : s \in DOMAIN ChainSections}

ThresholdInputs ==
    {[kind |-> "threshold", name |-> m, responses |-> <<>>, value |-> v] :
        m \in DOMAIN PercentageMappings, v \in PercentageValues}
    \cup
    {[kind |-> "threshold", name |-> m, responses |-> <<>>, value |-> v] :
        m \in DOMAIN CountMappings, v \in CountValues}

NoResult == [kind |-> "none", grade |-> "", deciding |-> "", visited |-> <<>>]

\* evaluate() on a section and a response store
EvaluateSection ==
    /\ evalIn.kind = "chain"
    /\ evalOut = NoResult
    /\ LET res == Evaluate(ChainSections[evalIn.name], evalIn.responses)
       IN  evalOut' = [kind |-> "chain", grade |-> res.grade,
                       deciding |-> res.deciding, visited |-> res.visited]
    /\ UNCHANGED <<reportVars, evalIn, callVars, webVars, hostVars>>

\* the threshold step of evaluate() on one value
EvaluateThreshold ==
    /\ evalIn.kind = "threshold"
    /\ evalOut = NoResult
    /\ evalOut' = [kind |-> "threshold",
                   grade |-> ThresholdOutcome(ThresholdMappings[evalIn.name], evalIn.value),
                   deciding |-> "", visited |-> <<>>]
    /\ UNCHANGED <<reportVars, evalIn, callVars, webVars, hostVars>>

InitEval ==
    /\ HostIdle
    /\ evalIn \in ChainInputs \cup ThresholdInputs
    /\ evalOut = NoResult
    /\ scores = [k \in ScoreKeys |-> Absent]
    /\ section_definitions = <<>>
    /\ summary = NoSummary
    /\ response = NoResponse
    /\ assessments = {}
    /\ callIn = NoCall
    /\ callOut = NoCall
    /\ WebIdle

NextEval == EvaluateSection \/ EvaluateThreshold

SpecEval == InitEval /\ [][NextEval]_vars

----------------------------------------------------------------------------
(* Functions called on their own, each on every input of a bounded set *)

\* the report is idle, and so is the evaluator
ReportIdle ==
    /\ scores = [k \in ScoreKeys |-> Absent]
    /\ section_definitions = <<>>
    /\ summary = NoSummary
    /\ response = NoResponse
    /\ assessments = {}

EvalIdle == evalIn = NoEval /\ evalOut = NoResult

\* the totals a summary of graded sections can reach: total_possible is 4 for each of
\* up to len(TOOL_SECTIONS) sections, total_scored at most 4 a section
PercentageCalls ==
    {[fn |-> "percentage", total_scored |-> n, total_possible |-> d] :
        n \in 0..(4 * Len(TOOL_SECTIONS)), d \in Denominators \cup {0}}

\* percentage = round((total_scored / total_possible * 100), 1) if ... else 0
ComputePercentage ==
    /\ callIn.fn = "percentage"
    /\ callOut = NoCall
    /\ callOut' = [fn |-> "percentage",
                   value |-> Percentage(callIn.total_scored, callIn.total_possible)]
    /\ UNCHANGED <<reportVars, evalVars, callIn, webVars, hostVars>>

\* the whitespace of the texts of the model: the space and the tab
Whitespace == {" ", "\t"}

\* str.strip() on a text of characters
RECURSIVE Trim(_)
Trim(text) ==
    IF text = <<>> THEN text
    ELSE IF Head(text) \in Whitespace THEN Trim(Tail(text))
    ELSE IF text[Len(text)] \in Whitespace THEN Trim(SubSeq(text, 1, Len(text) - 1))
    ELSE text

\* re.match(r'^(\+256|0)7\d{8}$', phone)
MatchesUgandaPattern(phone) ==
    LET rest == IF Len(phone) >= 4 /\ SubSeq(phone, 1, 4) = <<"+", "2", "5", "6">>
                THEN SubSeq(phone, 5, Len(phone))
                ELSE IF Len(phone) >= 1 /\ phone[1] = "0"
                THEN SubSeq(phone, 2, Len(phone))
                ELSE <<"x">>
    IN  /\ phone # <<>>
        /\ Len(rest) = 9
        /\ rest[1] = "7"
        /\ \A i \in 2..9 : rest[i] \in DOMAIN DigitValue

\* validate_phone_number matching the number as it was typed
ValidatePhoneNumberUncleaned(phone) == MatchesUgandaPattern(phone)

\* validate_phone_number: clean_phone = re.sub(r'\s+', '', phone.strip()), then the
\* pattern of 'uganda'
ValidatePhoneNumber(phone) ==
    /\ phone # <<>>
    /\ MatchesUgandaPattern(SelectSeq(Trim(phone), LAMBDA c : c \notin Whitespace))

\* a value of the participant dict: Missing when the dict has no such key; the text
\* <<>> stands for '' and for None, which the validator treats alike
Missing == [present |-> FALSE, text |-> <<>>]
Given(text) == [present |-> TRUE, text |-> text]

required_fields ==
    <<"participantName", "cadre", "dutyStation", "district", "mobileNumber",
      "mobileMoneyName">>

text_validations ==
    << [field |-> "participantName", min_len |-> 2, max_len |-> 100],
       [field |-> "cadre", min_len |-> 2, max_len |-> 50],
       [field |-> "dutyStation", min_len |-> 2, max_len |-> 100],
       [field |-> "district", min_len |-> 2, max_len |-> 50],
       [field |-> "mobileMoneyName", min_len |-> 2, max_len |-> 100] >>

\* validate_required_fields: the fields that are absent, empty or blank
ValidateRequiredFields(data, fields) ==
    SelectSeq(fields, LAMBDA f : \/ ~data[f].present
                                 \/ data[f].text = <<>>
                                 \/ Trim(data[f].text) = <<>>)

\* validate_text_length
ValidateTextLength(text, min_length, max_length) ==
    IF text = <<>> THEN min_length = 0
    ELSE min_length <= Len(Trim(text)) /\ Len(Trim(text)) <= max_length

\* the errors list of validate_participant_data, in the order they are appended
ParticipantErrors(participant) ==
    LET missing_fields == ValidateRequiredFields(participant, required_fields)
        wrong_length ==
            SelectSeq(text_validations,
                      LAMBDA v : /\ participant[v.field].present
                                 /\ participant[v.field].text # <<>>
                                 /\ ~ValidateTextLength(participant[v.field].text,
                                                        v.min_len, v.max_len))
        mobile == participant["mobileNumber"]
    IN  [i \in 1..Len(missing_fields) |-> [field |-> missing_fields[i], error |-> "required"]]
        \o [i \in 1..Len(wrong_length) |-> [field |-> wrong_length[i].field, error |-> "length"]]
        \o (IF mobile.present /\ mobile.text # <<>> /\ ~ValidatePhoneNumber(mobile.text)
            THEN <<[field |-> "mobileNumber", error |-> "format"]>>
            ELSE <<>>)

\* a text of n letters
Letters(n) == [i \in 1..n |-> "a"]

\* the values a text field is given: absent, empty, blank, too short with and without
\* a space after it, the shortest and the longest text allowed, the latter also with
\* spaces around it, and a text too long by one
TextChoices(v) ==
    {Missing, Given(<<>>), Given(<<" ">>), Given(Letters(v.min_len - 1)),
     Given(Letters(v.min_len - 1) \o <<" ">>), Given(Letters(v.min_len)),
     Given(Letters(v.max_len)), Given(<<" ">> \o Letters(v.max_len) \o <<" ">>),
     Given(Letters(v.max_len + 1))}

\* the values mobileNumber is given
PhoneChoices ==
    {Missing, Given(<<>>), Given(<<" ">>),
     Given(<<"0", "7", "0", "1", "2", "3", "4", "5", "6", "7">>),
     Given(<<"+", "2", "5", "6", "7", "0", "1", "2", "3", "4", "5", "6", "7">>),
     Given(<<"0", "7", " ", "0", "1", "2", "3", " ", "4", "5", "6", "7">>),
     Given(<<" ", "0", "7", "0", "1", "2", "3", "4", "5", "6", "7", "\t">>),
     Given(<<"0", "7", "0", "1", "2", "3", "4", "5", "6">>),
     Given(<<"0", "7", "0", "1", "2", "3", "4", "5", "6", "7", "8">>),
     Given(<<"0", "8", "0", "1", "2", "3", "4", "5", "6", "7">>),
     Given(<<"2", "5", "6", "7", "0", "1", "2", "3", "4", "5", "6", "7">>),
     Given(<<"+", "2", "5", "6", "0", "7", "0", "1", "2", "3", "4", "5", "6", "7">>),
     Given(<<"0", "7", "0", "1", "a", "3", "4", "5", "6", "7">>)}

RequiredFieldNames == {required_fields[i] : i \in 1..Len(required_fields)}

FieldChoices(f) ==
    IF f = "mobileNumber" THEN PhoneChoices
    ELSE TextChoices(text_validations[CHOOSE i \in 1..Len(text_validations) :
                                          text_validations[i].field = f])

\* the participant of test_validators, and the participants that differ from such a
\* one in at most two fields
ValidParticipant ==
    [f \in RequiredFieldNames |->
        IF f = "mobileNumber"
        THEN Given(<<"0", "7", "0", "1", "2", "3", "4", "5", "6", "7">>)
        ELSE Given(<<"G", "u", "l", "u">>)]

ParticipantCalls ==
    UNION {{[fn |-> "validate_participant_data",
             participant |-> [ValidParticipant EXCEPT ![f] = x, ![g] = y]] :
               x \in FieldChoices(f), y \in FieldChoices(g)} :
           f \in RequiredFieldNames, g \in RequiredFieldNames}

\* DataValidator.validate_participant_data(participant)
CallValidateParticipantData ==
    /\ callIn.fn = "validate_participant_data"
    /\ callOut = NoCall
    /\ LET errors == ParticipantErrors(callIn.participant)
       IN  callOut' = [fn |-> "validate_participant_data",
                       is_valid |-> (Len(errors) = 0), errors |-> errors]
    /\ UNCHANGED <<reportVars, evalVars, callIn, webVars, hostVars>>

\* the text of sanitize_input is a sequence of code points; the inputs of the model
\* are the texts of up to MaxTextLen characters over NUL, SOH, tab, CR, space, + - = @
\* and a letter
MaxTextLen == 3
TextCharacters == {0, 1, 9, 13, 32, 43, 45, 61, 64, 97}
Texts == UNION {[1..n -> TextCharacters] : n \in 0..MaxTextLen}

SanitizeCalls == {[fn |-> "sanitize_input", text |-> t] : t \in Texts}

\* str.isspace() on the characters of Latin-1
IsSpace(c) == c \in (9..13) \cup (28..32) \cup {133, 160}

RECURSIVE LStrip(_)
LStrip(text) ==
    IF text # <<>> /\ IsSpace(Head(text)) THEN LStrip(Tail(text)) ELSE text

RECURSIVE RStrip(_)
RStrip(text) ==
    IF text # <<>> /\ IsSpace(text[Len(text)])
    THEN RStrip(SubSeq(text, 1, Len(text) - 1))
    ELSE text

\* str.strip()
Strip(text) == RStrip(LStrip(text))

\* dangerous_chars = ['=', '+', '-', '@', '\t', '\r', '\0']
dangerous_chars == {61, 43, 45, 64, 9, 13, 0}

\* the class [\x00-\x08\x0B\x0C\x0E-\x1F\x7F] of the re.sub
ControlCharacters == (0..8) \cup {11, 12} \cup (14..31) \cup {127}

\* sanitize_input with the apostrophe put in front of the text before the control
\* characters are removed, as the code orders the two
SanitizeInput(text) ==
    IF text = <<>> THEN text
    ELSE LET stripped == Strip(text)
             escaped == IF stripped # <<>> /\ stripped[1] \in dangerous_chars
                        THEN <<39>> \o stripped
                        ELSE stripped
             cleaned == SelectSeq(escaped, LAMBDA c : c \notin ControlCharacters)
         IN  IF Len(cleaned) > 1000 THEN SubSeq(cleaned, 1, 1000) ELSE cleaned

\* DataValidator.sanitize_input(text)
CallSanitizeInput ==
    /\ callIn.fn = "sanitize_input"
    /\ callOut = NoCall
    /\ callOut' = [fn |-> "sanitize_input", value |-> SanitizeInput(callIn.text)]
    /\ UNCHANGED <<reportVars, evalVars, callIn, webVars, hostVars>>

InitCalls ==
    /\ HostIdle
    /\ callIn \in PercentageCalls \cup SanitizeCalls \cup ParticipantCalls
    /\ callOut = NoCall
    /\ ReportIdle
    /\ EvalIdle
    /\ WebIdle

NextCalls ==
    \/ ComputePercentage
    \/ CallSanitizeInput
    \/ CallValidateParticipantData

SpecCalls == InitCalls /\ [][NextCalls]_vars

----------------------------------------------------------------------------
(* Sessions, the protected routes, the admin API and the two submissions *)

\* the users init_database creates
Users ==
    { [username |-> "admin", password |-> "admin", role |-> "user"],
      [username |-> "superuser", password |-> "superuser", role |-> "superuser"] }

\* what a login form is filled in with
Usernames == {"admin", "superuser", "nobody"}
Passwords == {"admin", "superuser"}

\* the deployments of the model: SESSION_VERSION is incremented up to this value
MaxSessionVersion == 3

\* the rows a table of the model holds at most, and the largest primary key
MaxRows == 2
MaxId == 3

Facilities == {"Mulago", "Kawempe"}

\* login_required without its session_version check
LoginRequiredIgnoringVersion(s, version) ==
    IF ~s.logged_in \/ s.username = "" THEN "unauthenticated" ELSE "ok"

\* the checks of login_required on the session: "ok" lets the request through
LoginRequired(s, version) ==
    IF s.session_version # version THEN "expired"
    ELSE IF ~s.logged_in \/ s.username = "" THEN "unauthenticated"
    ELSE "ok"

\* the checks of superuser_required
SuperuserRequired(s, version) ==
    IF s.session_version # version THEN "expired"
    ELSE IF ~s.logged_in \/ s.username = "" \/ s.user_role = "" THEN "unauthenticated"
    ELSE IF s.user_role # "superuser" THEN "forbidden"
    ELSE "ok"

\* the answer of login_required to a request it does not let through
RefusedByLogin(endpoint, is_json) ==
    [Answer(endpoint, IF is_json THEN 401 ELSE 302, FALSE)
        EXCEPT !.refused_by = "login_required"]

\* POST /login.  commit_ok: the commit of user.last_login succeeds; when it raises,
\* the session is already set and the request answers 500.
Login ==
    \E username \in Usernames, password \in Passwords, commit_ok \in BOOLEAN :
        LET found == {u \in Users : u.username = username /\ u.password = password}
        IN  /\ IF found # {}
               THEN LET user == CHOOSE u \in found : TRUE
                    IN  /\ session' = [session_version |-> SESSION_VERSION,
                                       logged_in |-> TRUE,
                                       username |-> username,
                                       user_role |-> user.role]
                        /\ response' = IF commit_ok THEN Answer("login", 302, TRUE)
                                       ELSE Answer("login", 500, FALSE)
               ELSE /\ response' = Answer("login", 200, FALSE)
                    /\ UNCHANGED session
            /\ UNCHANGED <<scores, section_definitions, summary, assessments,
                           evalVars, callVars, SESSION_VERSION, participants, handlers, hostVars>>

\* GET /logout
Logout ==
    /\ session' = ClearedSession
    /\ response' = Answer("logout", 302, TRUE)
    /\ UNCHANGED <<scores, section_definitions, summary, assessments,
                   evalVars, callVars, SESSION_VERSION, participants, handlers, hostVars>>

\* the application is deployed again with SESSION_VERSION incremented, "to invalidate
\* all existing sessions"; the session cookies and the database stay
Redeploy ==
    /\ SESSION_VERSION < MaxSessionVersion
    /\ SESSION_VERSION' = SESSION_VERSION + 1
    /\ handlers' = [w \in Handlers |-> IdleHandler]
    /\ response' = NoResponse
    /\ UNCHANGED <<scores, section_definitions, summary, assessments,
                   evalVars, callVars, session, participants, hostVars>>

\* GET /registration, a login_required page; is_json: the request has a JSON
\* content type
Registration ==
    \E is_json \in BOOLEAN :
        /\ IF LoginRequired(session, SESSION_VERSION) # "ok"
           THEN /\ session' = ClearedSession
                /\ response' = RefusedByLogin("registration", is_json)
           ELSE /\ response' = Answer("registration", 200, TRUE)
                /\ UNCHANGED session
        /\ UNCHANGED <<scores, section_definitions, summary, assessments,
                       evalVars, callVars, SESSION_VERSION, participants, handlers, hostVars>>

\* GET /admin, a superuser_required page
AdminDashboard ==
    LET check == SuperuserRequired(session, SESSION_VERSION)
    IN  /\ IF check \in {"expired", "unauthenticated"}
           THEN /\ session' = ClearedSession
                /\ response' = [Answer("admin_dashboard", 302, FALSE)
                                   EXCEPT !.refused_by = "superuser_required"]
           ELSE IF check = "forbidden"
           THEN /\ response' = [Answer("admin_dashboard", 403, FALSE)
                                   EXCEPT !.refused_by = "superuser_required"]
                /\ UNCHANGED session
           ELSE /\ response' = Answer("admin_dashboard", 200, TRUE)
                /\ UNCHANGED session
        /\ UNCHANGED <<scores, section_definitions, summary, assessments,
                       evalVars, callVars, SESSION_VERSION, participants, handlers, hostVars>>

(* The admin API: the routes of admin_bp, registered with no decorator.  Flask-WTF  *)
(* checks the CSRF token of a DELETE or POST request before the view runs; csrf_ok  *)
(* says whether the request carries a token that is valid for its session.         *)

AdminEndpoints ==
    {"get_all_participants", "get_all_assessments", "export_participants",
     "export_assessments", "delete_participant", "delete_assessment",
     "delete_facility_data", "reset_all_data"}

RefusedByCsrf(endpoint) == [Answer(endpoint, 400, FALSE) EXCEPT !.refused_by = "csrf"]

RowIds(table) == {row.id : row \in table}

\* what an admin route leaves alone besides the two tables and the response
AdminUnchanged ==
    UNCHANGED <<scores, section_definitions, summary, evalVars, callVars,
                SESSION_VERSION, session, handlers, hostVars>>

\* GET /api/admin/participants/all
GetAllParticipants ==
    /\ response' = [Answer("get_all_participants", 200, TRUE)
                       EXCEPT !.rows = RowIds(participants)]
    /\ UNCHANGED <<participants, assessments>>
    /\ AdminUnchanged

\* GET /api/admin/assessments/all
GetAllAssessments ==
    /\ response' = [Answer("get_all_assessments", 200, TRUE)
                       EXCEPT !.rows = RowIds(assessments)]
    /\ UNCHANGED <<participants, assessments>>
    /\ AdminUnchanged

\* GET /api/admin/export/participants
ExportParticipants ==
    /\ response' = IF participants = {} THEN Answer("export_participants", 404, FALSE)
                   ELSE [Answer("export_participants", 200, TRUE)
                            EXCEPT !.rows = RowIds(participants)]
    /\ UNCHANGED <<participants, assessments>>
    /\ AdminUnchanged

\* GET /api/admin/export/assessments
ExportAssessments ==
    /\ response' = IF assessments = {} THEN Answer("export_assessments", 404, FALSE)
                   ELSE [Answer("export_assessments", 200, TRUE)
                            EXCEPT !.rows = RowIds(assessments)]
    /\ UNCHANGED <<participants, assessments>>
    /\ AdminUnchanged

\* DELETE /api/admin/delete/participant/<participant_id>
DeleteParticipant ==
    \E participant_id \in 1..MaxId, csrf_ok \in BOOLEAN, commit_ok \in BOOLEAN :
        LET found == {row \in participants : row.id = participant_id}
        IN  /\ IF ~csrf_ok
               THEN /\ response' = RefusedByCsrf("delete_participant")
                    /\ UNCHANGED participants
               ELSE IF found = {}
               THEN /\ response' = Answer("delete_participant", 404, FALSE)
                    /\ UNCHANGED participants
               ELSE IF commit_ok
               THEN /\ participants' = participants \ found
                    /\ response' = Answer("delete_participant", 200, TRUE)
               ELSE /\ response' = Answer("delete_participant", 500, FALSE)
                    /\ UNCHANGED participants
            /\ UNCHANGED assessments
            /\ AdminUnchanged

\* DELETE /api/admin/delete/assessment/<assessment_id>
DeleteAssessment ==
    \E assessment_id \in 1..MaxId, csrf_ok \in BOOLEAN, commit_ok \in BOOLEAN :
        LET found == {row \in assessments : row.id = assessment_id}
        IN  /\ IF ~csrf_ok
               THEN /\ response' = RefusedByCsrf("delete_assessment")
                    /\ UNCHANGED assessments
               ELSE IF found = {}
               THEN /\ response' = Answer("delete_assessment", 404, FALSE)
                    /\ UNCHANGED assessments
               ELSE IF commit_ok
               THEN /\ assessments' = assessments \ found
                    /\ response' = Answer("delete_assessment", 200, TRUE)
               ELSE /\ response' = Answer("delete_assessment", 500, FALSE)
                    /\ UNCHANGED assessments
            /\ UNCHANGED participants
            /\ AdminUnchanged

\* DELETE /api/admin/delete/facility/<facility_name>
DeleteFacilityData ==
    \E facility_name \in Facilities, csrf_ok \in BOOLEAN, commit_ok \in BOOLEAN :
        /\ IF ~csrf_ok
           THEN /\ response' = RefusedByCsrf("delete_facility_data")
                /\ UNCHANGED <<participants, assessments>>
           ELSE IF commit_ok
           THEN /\ participants' =
                    {row \in participants : row.duty_station # facility_name}
                /\ assessments' =
                    {row \in assessments : row.facility_name # facility_name}
                /\ response' = Answer("delete_facility_data", 200, TRUE)
           ELSE /\ response' = Answer("delete_facility_data", 500, FALSE)
                /\ UNCHANGED <<participants, assessments>>
        /\ AdminUnchanged

\* POST /api/admin/reset/all: admin_routes imports Participant and Assessment only,
\* so ActivityLog.query raises NameError before anything is deleted, and the except
\* clause rolls back and answers 500
ResetAllData ==
    \E csrf_ok \in BOOLEAN :
        /\ response' = IF ~csrf_ok THEN RefusedByCsrf("reset_all_data")
                       ELSE Answer("reset_all_data", 500, FALSE)
        /\ UNCHANGED <<participants, assessments>>
        /\ AdminUnchanged

(* The two submissions.  submit_assessment is modelled in two steps, since the query *)
(* for an existing assessment and the commit of the new one are separate database  *)
(* operations between which another thread's request can run.                       *)

\* how a request passes validate_json and rate_limit: request.is_json is false, the
\* client's address has used up its requests of the hour, or neither
Gates == {"ok", "not_json", "rate_limited"}

\* the answer of validate_json or rate_limit to a request stopped at the gate
RefusedAtGate(endpoint, gate) ==
    IF gate = "not_json"
    THEN [Answer(endpoint, 400, FALSE) EXCEPT !.refused_by = "validate_json"]
    ELSE [Answer(endpoint, 429, FALSE) EXCEPT !.refused_by = "rate_limit"]

\* the registrationDate values strptime(..., '%Y-%m-%d') parses
WellFormedDates == {"2025-10-24"}

\* validate_participant_data on a participant of a registration, whose cadre,
\* dutyStation, district and mobileMoneyName are filled in: is_valid
ValidateParticipantData(participant) ==
    ParticipantErrors(
        [f \in {required_fields[i] : i \in 1..Len(required_fields)} |->
            IF f = "participantName" THEN Given(participant.participantName)
            ELSE IF f = "mobileNumber" THEN Given(participant.mobileNumber)
            ELSE Given(<<"G", "u", "l", "u">>)]) = <<>>

\* the participants a registration lists: a well-formed one, one with a short phone
\* number, one whose registrationDate is written day first
RegisteredParticipants ==
    { [participantName |-> <<"A", "k", "e", "l", "l", "o">>,
       mobileNumber |-> <<"0", "7", "1", "2", "3", "4", "5", "6", "7", "8">>,
       registrationDate |-> "2025-10-24"],
      [participantName |-> <<"A", "k", "e", "l", "l", "o">>,
       mobileNumber |-> <<"1", "2", "3", "4", "5">>,
       registrationDate |-> "2025-10-24"],
      [participantName |-> <<"O", "k", "o", "t">>,
       mobileNumber |-> <<"+", "2", "5", "6", "7", "1", "2", "3", "4", "5", "6", "7", "8">>,
       registrationDate |-> "24/10/2025"] }

\* the participants lists of the /submit requests
MaxParticipants == 2
ParticipantLists ==
    UNION {[1..n -> RegisteredParticipants] : n \in 0..MaxParticipants}

\* the rows db.session.add receives: Participant(...) raises for a registrationDate
\* strptime refuses, and that participant is logged and left out
RECURSIVE AddedRows(_, _, _)
AddedRows(list, duty_station, next_id) ==
    IF list = <<>> THEN {}
    ELSE IF Head(list).registrationDate \in WellFormedDates
         THEN {[id |-> next_id, duty_station |-> duty_station]}
              \cup AddedRows(Tail(list), duty_station, next_id + 1)
         ELSE AddedRows(Tail(list), duty_station, next_id)

\* POST /submit.  commit_ok: db.session.commit() succeeds; email_ok: send_email
\* reports success.  saved: every participant of the request is in the table.
SubmitData ==
    \E list \in ParticipantLists, gate \in Gates,
       commit_ok \in BOOLEAN, email_ok \in BOOLEAN :
        LET rows == AddedRows(list, FacilityName, NextId(participants))
        IN  /\ Cardinality(participants) + Len(list) <= MaxRows
            /\ NextId(participants) + Len(list) - 1 <= MaxId
            /\ UNCHANGED <<scores, section_definitions, summary, assessments,
                           evalVars, callVars, SESSION_VERSION, handlers, hostVars>>
            /\ IF LoginRequired(session, SESSION_VERSION) # "ok"
               THEN /\ session' = ClearedSession
                    /\ response' = RefusedByLogin("submit_data", gate # "not_json")
                    /\ UNCHANGED participants
               ELSE /\ UNCHANGED session
                    /\ IF gate # "ok"
                       THEN /\ response' = RefusedAtGate("submit_data", gate)
                            /\ UNCHANGED participants
                       ELSE IF list = <<>>
                       THEN /\ response' = Answer("submit_data", 400, FALSE)
                            /\ UNCHANGED participants
                       ELSE IF \E i \in 1..Len(list) : ~ValidateParticipantData(list[i])
                       THEN /\ response' = Answer("submit_data", 400, FALSE)
                            /\ UNCHANGED participants
                       ELSE /\ participants' =
                                IF commit_ok THEN participants \cup rows
                                ELSE participants
                            /\ response' =
                                [Answer("submit_data", 200, TRUE)
                                    EXCEPT !.saved = commit_ok
                                                     /\ Cardinality(rows) = Len(list),
                                           !.email_warning = ~email_ok]

\* the scores of the /submit-assessment requests: one grade, one text answer, one
\* number the validator refuses
SubmittedScores ==
    { [k \in ScoreKeys |-> IF k = art_pmtct THEN IntV(4) ELSE Absent],
      [k \in ScoreKeys |-> IF k = art_pmtct THEN StrV(<<"y", "e", "s">>) ELSE Absent],
      [k \in ScoreKeys |-> IF k = art_pmtct THEN IntV(PercentScore + 1) ELSE Absent] }

\* submit_assessment up to the query for an existing assessment of the facility
SubmitAssessmentCheck(w) ==
    \E facility_name \in Facilities, sc \in SubmittedScores, gate \in Gates :
        /\ handlers[w].pc = "idle"
        /\ UNCHANGED <<scores, section_definitions, summary, assessments,
                       evalVars, callVars, SESSION_VERSION, participants, hostVars>>
        /\ IF LoginRequired(session, SESSION_VERSION) # "ok"
           THEN /\ session' = ClearedSession
                /\ response' = RefusedByLogin("submit_assessment", gate # "not_json")
                /\ UNCHANGED handlers
           ELSE /\ UNCHANGED session
                /\ IF gate # "ok"
                   THEN /\ response' = RefusedAtGate("submit_assessment", gate)
                        /\ UNCHANGED handlers
                   ELSE IF ~ValidateAssessmentData(sc)
                   THEN /\ response' = Answer("submit_assessment", 400, FALSE)
                        /\ UNCHANGED handlers
                   ELSE IF \E row \in assessments : row.facility_name = facility_name
                   THEN /\ response' = Answer("submit_assessment", 400, FALSE)
                        /\ UNCHANGED handlers
                   ELSE /\ handlers' =
                            [handlers EXCEPT ![w] = [pc |-> "checked",
                                                     facility_name |-> facility_name,
                                                     scores |-> sc]]
                        /\ UNCHANGED response

\* submit_assessment from "Calculate overall score" on: the score, the commit of the
\* new row, the report, the e-mail and the answer.  The request carries no
\* section_definitions.
SubmitAssessmentSave(w) ==
    \E commit_ok \in BOOLEAN, email_ok \in BOOLEAN :
        LET h == handlers[w]
            overall == OverallScore(h.scores)
            s == ExcelSummary(h.scores, <<>>)
        IN  /\ h.pc = "checked"
            /\ commit_ok => (Cardinality(assessments) < MaxRows
                             /\ NextId(assessments) <= MaxId)
            /\ handlers' = [handlers EXCEPT ![w] = IdleHandler]
            /\ UNCHANGED <<scores, section_definitions, summary, evalVars, callVars,
                           SESSION_VERSION, session, participants, hostVars>>
            /\ IF overall.raised
               THEN /\ response' = [Answer("submit_assessment", 500, FALSE)
                                       EXCEPT !.overall = overall]
                    /\ UNCHANGED assessments
               ELSE /\ assessments' =
                        IF commit_ok
                        THEN assessments \cup
                             {[id |-> NextId(assessments),
                               facility_name |-> h.facility_name,
                               overall_score |-> [num |-> overall.num, den |-> overall.den]]}
                        ELSE assessments
                    /\ response' =
                        IF s.raised
                        THEN [Answer("submit_assessment", 500, FALSE)
                                EXCEPT !.overall = overall, !.saved = commit_ok]
                        ELSE [Answer("submit_assessment", 200, TRUE)
                                EXCEPT !.overall = overall, !.saved = commit_ok,
                                       !.email_warning = ~email_ok]

\* the session a successful login of user leaves
SessionOf(user, version) ==
    [session_version |-> version, logged_in |-> TRUE,
     username |-> user.username, user_role |-> user.role]

\* the tables as earlier submissions have left them
StoredParticipants ==
    { {}, {[id |-> 1, duty_station |-> "Mulago"]},
      {[id |-> 1, duty_station |-> "Mulago"], [id |-> 2, duty_station |-> "Kawempe"]} }

StoredAssessments ==
    { {}, {[id |-> 1, facility_name |-> "Mulago", overall_score |-> [num |-> 400, den |-> 5]]} }

\* the sessions and the admin API on a database that holds earlier submissions
InitAuth ==
    /\ HostIdle
    /\ SESSION_VERSION = InitialSessionVersion
    /\ session = ClearedSession
    /\ participants \in StoredParticipants
    /\ assessments \in StoredAssessments
    /\ handlers = [w \in Handlers |-> IdleHandler]
    /\ scores = [k \in ScoreKeys |-> Absent]
    /\ section_definitions = <<>>
    /\ summary = NoSummary
    /\ response = NoResponse
    /\ EvalIdle
    /\ callIn = NoCall
    /\ callOut = NoCall

NextAuth ==
    \/ Login
    \/ Logout
    \/ Redeploy
    \/ Registration
    \/ AdminDashboard
    \/ GetAllParticipants
    \/ GetAllAssessments
    \/ ExportParticipants
    \/ ExportAssessments
    \/ DeleteParticipant
    \/ DeleteAssessment
    \/ DeleteFacilityData
    \/ ResetAllData

SpecAuth == InitAuth /\ [][NextAuth]_vars

\* the submissions of a client that is logged in or not, on an empty database, with
\* the admin deleting assessments
InitSubmit ==
    /\ HostIdle
    /\ SESSION_VERSION = InitialSessionVersion
    /\ session \in {ClearedSession} \cup {SessionOf(u, InitialSessionVersion) : u \in Users}
    /\ participants = {}
    /\ handlers = [w \in Handlers |-> IdleHandler]
    /\ ReportIdle
    /\ EvalIdle
    /\ callIn = NoCall
    /\ callOut = NoCall

NextSubmit ==
    \/ SubmitData
    \/ \E w \in Handlers : SubmitAssessmentCheck(w)
    \/ \E w \in Handlers : SubmitAssessmentSave(w)
    \/ DeleteAssessment
    \/ DeleteFacilityData

SpecSubmit == InitSubmit /\ [][NextSubmit]_vars

----------------------------------------------------------------------------
(* The whole question specification, as the literals of app.py and            *)
(* pmtct_config.py declare it, and what the report generators derive from it. *)

\* "no_skip_to": "eid_q5" of PMTCT_ASSESSMENT: the outcome skip_to with its target
RuleTo(answer, outcome, goto) == [answer |-> answer, outcome |-> outcome, goto |-> goto]

\* a question: its id, its type ("" when the literal has none), the ids its depends_on
\* names (the string of TOOL_SECTIONS, the keys of the dict of PMTCT_ASSESSMENT), the
\* entries of its scoring (a "thresholds" dict grade -> bucket gives the rules
\* bucket -> grade; the text "If N to any = Red" is the rule any_no -> red), the
\* labels of its items when it is a multi_yes_no, and its fields
Asked(id, type, depends_on, scoring) ==
    [id |-> id, type |-> type, depends_on |-> depends_on, scoring |-> scoring,
     items |-> <<>>, fields |-> <<>>]

\* a field of a data_entry_table; formula is the sequence of the tokens of its text
Field(id, type, formula) == [id |-> id, type |-> type, formula |-> formula]

\* TOOL_SECTIONS: the questions of every section, in the order of the literal; the
\* lists 'questions', 'inventory_questions', 'scoring_questions' and the 'questions'
\* of 'path1' and 'path2' of a section follow one another
ToolSectionQuestions ==
    <<
      [key |-> "service_delivery", questions |-> << >>],
      [key |-> "human_resources", questions |-> << >>],
      [key |-> "supply_chain", questions |-> << >>],
      [key |-> "data_management", questions |-> << >>],
      [key |-> "quality_improvement", questions |-> << >>],
      [key |-> "triple_elimination_treatment", questions |-> <<
         [Asked("tet_q1", "multi_yes_no", {}, {Rule("any_no", "red")}) EXCEPT
            !.items = << <<"H", "I", "V">>, <<"S", "y", "p", "h", "i", "l", "i", "s">>,
                          <<"H", "e", "p", "a", "t", "i", "t", "i", "s", " ", "B">> >>],
         [Asked("tet_q2", "data_entry_table", {}, {Rule("<60", "red"), Rule("60-79.9",
               "yellow"), Rule("80-89.9", "light_green"), Rule(">=90", "dark_green")}) EXCEPT
            !.fields =
                << Field("tet_hiv_positive", "number", <<>>),
                   Field("tet_art_initiated", "number", <<>>),
                   Field("tet_art_pct", "calculated", <<"(", "art_initiated", "/",
               "hiv_positive", ")", "*", "100">>),
                   Field("tet_syphilis_positive", "number", <<>>),
                   Field("tet_syphilis_treated", "number", <<>>),
                   Field("tet_syphilis_treated_pct", "calculated", <<"(", "syphilis_treated",
               "/", "syphilis_positive", ")", "*", "100">>),
                   Field("tet_hepb_positive", "number", <<>>),
                   Field("tet_hepb_vl_high", "number", <<>>),
                   Field("tet_hepb_art_initiated", "number", <<>>),
                   Field("tet_hepb_art_pct", "calculated", <<"(", "hepb_art_initiated", "/",
               "hepb_vl_high", ")", "*", "100">>),
                   Field("tet_average_pct", "calculated", <<"(", "art_pct", "+",
               "syphilis_treated_pct", "+", "hepb_art_pct", ")", "/", "3">>) >>] >>],
      [key |-> "art_pmtct", questions |-> <<
         [Asked("art_pmtct_q1", "multi_yes_no", {}, {Rule("any_no", "red")}) EXCEPT
            !.items = <<
                          <<"S", "T", "I", " ", "/", "c", "a", " ", "c", "x", "/", " ", "G",
               "B", "V", " ", "s", "c", "r", "e", "e", "n", "i", "n", "g">>,
                          <<"F", "P">>, <<"V", "L", " ", "t", "e", "s", "t", "i", "n", "g">>,
                          <<"I", "A", "C">>, <<"C", "D", "4">>, <<"C", "T", "X">> >>] >>],
      [key |-> "quality_pmtct", questions |-> << >>],
      [key |-> "patient_tracking", questions |-> <<
         Asked("pt_q1", "", {}, {Rule("no", "red"), Rule("yes", "next")}),
         Asked("pt_q2", "", {"pt_q1"}, {Rule("no", "yellow"), Rule("yes", "next")}),
         Asked("pt_q3", "", {"pt_q2"}, {Rule("no", "yellow"), Rule("yes", "next")}),
         Asked("pt_q4", "", {"pt_q3"}, {Rule("no", "light_green"), Rule("yes", "dark_green")}) >>],
      [key |-> "adherence_support", questions |-> <<
         Asked("as_q1", "", {}, {Rule("no", "red"), Rule("yes", "next")}),
         Asked("as_q2", "", {"as_q1"}, {Rule("no", "yellow"), Rule("yes", "next")}),
         Asked("as_q3", "percentage", {"as_q2"}, {Rule("<60", "yellow"), Rule("60-79",
               "light_green"), Rule(">=80", "next")}),
         Asked("as_q4", "", {"as_q3"}, {Rule("no", "light_green"), Rule("yes", "dark_green")}) >>],
      [key |-> "facility_linkage", questions |-> <<
         Asked("fl_q1", "", {}, {Rule("no", "red"), Rule("yes", "next")}),
         Asked("fl_q2", "", {"fl_q1"}, {Rule("no", "yellow"), Rule("yes", "next")}),
         Asked("fl_q3", "", {"fl_q2"}, {Rule("no", "light_green"), Rule("yes", "dark_green")}) >>],
      [key |-> "sti_screening", questions |-> <<
         Asked("sti_q1", "", {}, {Rule("no", "red"), Rule("yes", "next")}),
         Asked("sti_q2", "", {"sti_q1"}, {Rule("no", "yellow"), Rule("yes", "next")}),
         Asked("sti_q3", "percentage", {"sti_q2"}, {Rule("<70", "yellow"), Rule(">=70", "next")}),
         Asked("sti_q4", "", {"sti_q3"}, {Rule("no", "light_green"), Rule("yes", "dark_green")}) >>],
      [key |-> "early_infant_diagnosis", questions |-> <<
         Asked("eid_q1", "", {}, {Rule("no", "skip_to_path2"), Rule("yes", "next")}),
         Asked("eid_q2", "", {"eid_q1"}, {Rule("no", "red"), Rule("yes", "next")}),
         Asked("eid_q3", "", {"eid_q2"}, {Rule("no", "yellow"), Rule("yes", "next")}),
         Asked("eid_q4", "numeric", {"eid_q3"}, {Rule(">=3", "red"), Rule("2", "yellow"),
               Rule("1", "light_green"), Rule("0", "dark_green")}),
         Asked("eid_q5", "", {}, {Rule("no", "red"), Rule("yes", "next")}),
         Asked("eid_q6", "", {"eid_q5"}, {Rule("no", "yellow"), Rule("yes", "next")}),
         Asked("eid_q7", "", {"eid_q6"}, {Rule("no", "light_green"), Rule("yes", "dark_green")}) >>],
      [key |-> "ctx_hei", questions |-> <<
         Asked("ctx_q1", "numeric", {}, {Rule(">=3", "red"), Rule("2", "yellow"), Rule("1",
               "light_green"), Rule("0", "next")}),
         Asked("ctx_q2", "", {"ctx_q1"}, {Rule("no", "light_green"), Rule("yes", "dark_green")}) >>],
      [key |-> "tracking_hei", questions |-> <<
         Asked("thei_q1", "", {}, {Rule("no", "red"), Rule("yes", "next")}),
         Asked("thei_q2", "", {"thei_q1"}, {Rule("no", "yellow"), Rule("yes", "next")}),
         Asked("thei_q3", "", {"thei_q2"}, {Rule("no", "yellow"), Rule("yes", "next")}),
         Asked("thei_q4", "", {"thei_q3"}, {Rule("no", "light_green"), Rule("yes", "next")}),
         Asked("thei_q5", "", {"thei_q4"}, {Rule("no", "light_green"), Rule("yes", "dark_green")}) >>],
      [key |-> "enrolment_eid_art", questions |-> <<
         Asked("eea_q1", "", {}, {Rule("no", "red"), Rule("yes", "next")}),
         Asked("eea_q2", "", {"eea_q1"}, {Rule("no", "yellow"), Rule("yes", "next")}),
         Asked("eea_q3", "numeric", {"eea_q2"}, {Rule(">=3", "red"), Rule("2", "yellow"),
               Rule("1", "light_green"), Rule("0", "dark_green")}) >>],
      [key |-> "hei_eid_registers", questions |-> <<
         Asked("heir_q1", "", {}, {Rule("no", "red"), Rule("yes", "next")}),
         Asked("heir_q2", "checklist", {"heir_q1"}, {Rule("any_no", "red"), Rule("all_yes",
               "next")}),
         Asked("heir_q3", "checklist", {"heir_q2"}, {Rule("any_no", "yellow"), Rule("all_yes",
               "next")}),
         Asked("heir_q4", "", {"heir_q3"}, {Rule("no", "light_green"), Rule("yes", "dark_green")}) >>],
      [key |-> "supply_chain_eid", questions |-> <<
         Asked("sceid_q1", "", {}, {Rule("yes", "red"), Rule("no", "next")}),
         Asked("sceid_q2", "", {"sceid_q1"}, {Rule("yes", "yellow"), Rule("no", "next")}),
         Asked("sceid_q3", "", {"sceid_q2"}, {Rule("no", "light_green"), Rule("yes",
               "dark_green")}) >>],
      [key |-> "supply_chain_pmtct", questions |-> <<
         Asked("scpm_q1", "yes_no", {}, {}),
         Asked("scpm_q2", "numeric", {}, {}),
         Asked("scpm_q3", "yes_no", {}, {}),
         Asked("scpm_q4", "numeric", {}, {}),
         Asked("scpm_q5", "yes_no", {}, {}),
         Asked("scpm_q6", "numeric", {}, {}),
         Asked("scpm_q7", "", {}, {}),
         Asked("scpm_q8", "", {}, {}),
         Asked("scpm_q9", "", {}, {}) >>],
      [key |-> "supply_chain_syphilis", questions |-> <<
         Asked("scsy_q1", "yes_no", {}, {}),
         Asked("scsy_q2", "numeric", {}, {}),
         Asked("scsy_q3", "yes_no", {}, {}),
         Asked("scsy_q4", "numeric", {}, {}),
         Asked("scsy_q5", "", {}, {}),
         Asked("scsy_q6", "", {}, {}),
         Asked("scsy_q7", "", {}, {}) >>],
      [key |-> "supply_chain_hepb", questions |-> <<
         Asked("schb_q1", "yes_no", {}, {}),
         Asked("schb_q2", "numeric", {}, {}),
         Asked("schb_q3", "yes_no", {}, {}),
         Asked("schb_q4", "numeric", {}, {}),
         Asked("schb_q5", "yes_no", {}, {}),
         Asked("schb_q6", "numeric", {}, {}),
         Asked("schb_q7", "", {}, {}),
         Asked("schb_q8", "", {}, {}),
         Asked("schb_q9", "", {}, {}) >>],
      [key |-> "human_resources_delivery", questions |-> <<
         Asked("hrd_q1", "radio", {}, {}),
         Asked("hrd_q2", "text", {"hrd_q1"}, {}),
         Asked("hrd_q3", "yes_no", {}, {}),
         Asked("hrd_q4", "checklist", {"hrd_q3"}, {}),
         Asked("hrd_q5", "checklist", {"hrd_q3"}, {}),
         Asked("hrd_q6", "checklist", {"hrd_q3"}, {}),
         Asked("hrd_q7", "multi_checklist", {"hrd_q3"}, {}),
         Asked("hrd_q8", "checklist", {"hrd_q3"}, {}),
         Asked("hrd_q9", "yes_no", {}, {}),
         Asked("hrd_q10", "textarea", {}, {}) >>],
      [key |-> "registers", questions |-> << >>],
      [key |-> "patient_records", questions |-> <<
         Asked("pr_q1", "", {}, {Rule("no", "red"), Rule("yes", "next")}),
         Asked("pr_q2", "", {"pr_q1"}, {Rule("no", "red"), Rule("yes", "next")}),
         Asked("pr_q3", "", {"pr_q2"}, {Rule("no", "yellow"), Rule("yes", "next")}),
         Asked("pr_q4", "", {"pr_q3"}, {Rule("no", "light_green"), Rule("yes", "dark_green")}) >>]
    >>

\* PMTCT_ASSESSMENT['sections']: the questions of every section
PmtctSectionQuestions ==
    <<
      [key |-> "anc_registers", questions |-> <<
         Asked("anc_reg_q1", "checklist_table", {}, {Rule("1/3", "red"), Rule("2/3", "yellow"),
               Rule("3/3", "green")}) >>],
      [key |-> "patient_records", questions |-> <<
         Asked("pr_q1", "yes_no", {}, {Rule("no", "red"), RuleNext("yes", "pr_q2")}),
         Asked("pr_q2", "yes_no", {"pr_q1"}, {Rule("no", "red"), RuleNext("yes", "pr_q3")}),
         Asked("pr_q3", "yes_no", {"pr_q2"}, {Rule("no", "yellow"), RuleNext("yes", "pr_q4")}),
         Asked("pr_q4", "yes_no", {"pr_q3"}, {Rule("no", "light_green"), Rule("yes",
               "dark_green")}) >>],
      [key |-> "triple_elimination_testing", questions |-> <<
         [Asked("te_q1", "multi_yes_no", {}, {Rule("any_no", "red"), RuleNext("all_yes",
               "te_q2")}) EXCEPT
            !.items = << <<"H", "I", "V">>, <<"S", "y", "p", "h", "i", "l", "i", "s">>,
                          <<"H", "e", "p", "a", "t", "i", "t", "i", "s", " ", "B">> >>],
         [Asked("te_q2", "data_entry_table", {"te_q1"}, {}) EXCEPT
            !.fields =
                << Field("anc1_attendance", "number", <<>>),
                   Field("hiv_tested_anc1", "number", <<>>),
                   Field("hiv_screening_pct", "calculated", <<"(", "hiv_tested_anc1", "/",
               "anc1_attendance", ")", "*", "100">>),
                   Field("syphilis_tested_anc1", "number", <<>>),
                   Field("syphilis_testing_pct", "calculated", <<"(", "syphilis_tested_anc1",
               "/", "anc1_attendance", ")", "*", "100">>),
                   Field("hepb_tested_anc1", "number", <<>>),
                   Field("hepb_testing_pct", "calculated", <<"(", "hepb_tested_anc1", "/",
               "anc1_attendance", ")", "*", "100">>),
                   Field("hiv_status_documented", "number", <<>>) >>],
         [Asked("te_q2_results", "data_entry_table", {"te_q1"}, {}) EXCEPT
            !.fields =
                << Field("hiv_positive_first_time", "number", <<>>),
                   Field("hiv_positive_pct", "calculated", <<"(", "hiv_positive_first_time",
               "/", "hiv_tested_anc1", ")", "*", "100">>),
                   Field("syphilis_positive_first_time", "number", <<>>),
                   Field("syphilis_positive_pct", "calculated", <<"(",
               "syphilis_positive_first_time", "/", "syphilis_tested_anc1", ")", "*", "100">>),
                   Field("hepb_positive_first_time", "number", <<>>),
                   Field("hepb_positive_pct", "calculated", <<"(", "hepb_positive_first_time",
               "/", "hepb_tested_anc1", ")", "*", "100">>) >>],
         [Asked("te_q2_hepb_vl", "data_entry_table", {"te_q1"}, {}) EXCEPT
            !.fields =
                << Field("hepb_vl_sent_cphl", "number", <<>>),
                   Field("hepb_vl_sent_pct", "calculated", <<"(", "hepb_vl_sent_cphl", "/",
               "hepb_positive_first_time", ")", "*", "100">>),
                   Field("hepb_vl_received", "number", <<>>),
                   Field("hepb_vl_received_pct", "calculated", <<"(", "hepb_vl_received", "/",
               "hepb_vl_sent_cphl", ")", "*", "100">>),
                   Field("hepb_vl_high", "number", <<>>),
                   Field("hepb_vl_high_pct", "calculated", <<"(", "hepb_vl_high", "/",
               "hepb_vl_received", ")", "*", "100">>) >>],
         [Asked("te_q3", "multi_yes_no", {"te_q1"}, {Rule("any_no", "light_green"),
               Rule("all_yes", "dark_green")}) EXCEPT
            !.items = << <<"R", "e", "-", "t", "e", "s", "t", "i", "n", "g", ":", " ", "A",
               "N", "C">>,
                          <<"R", "e", "-", "t", "e", "s", "t", "i", "n", "g", ":", " ", "M",
               "a", "t", "e", "r", "n", "i", "t", "y">>,
                          <<"R", "e", "-", "t", "e", "s", "t", "i", "n", "g", ":", " ", "P",
               "N", "C">>,
                          <<"M", "a", "l", "e", " ", "P", "a", "r", "t", "n", "e", "r", " ",
               "T", "e", "s", "t", "i", "n", "g">>,
                          <<"H", "I", "V", "S", "T", "K", "s">> >>] >>],
      [key |-> "triple_elimination_treatment", questions |-> <<
         [Asked("tet_q1", "multi_yes_no", {}, {Rule("any_no", "red"), RuleNext("all_yes",
               "tet_q2")}) EXCEPT
            !.items = << <<"H", "I", "V">>, <<"S", "y", "p", "h", "i", "l", "i", "s">>,
                          <<"H", "e", "p", "a", "t", "i", "t", "i", "s", " ", "B">> >>],
         [Asked("tet_q2", "data_entry_table", {"tet_q1"}, {Rule("<60", "red"), Rule("60-79",
               "yellow"), Rule("80-89", "light_green"), Rule(">=90", "dark_green")}) EXCEPT
            !.fields =
                << Field("hiv_positive_documented", "number", <<>>),
                   Field("art_initiated", "number", <<>>),
                   Field("art_pct", "calculated", <<"(", "art_initiated", "/",
               "hiv_positive_documented", ")", "*", "100">>),
                   Field("syphilis_positive_documented", "number", <<>>),
                   Field("syphilis_treated", "number", <<>>),
                   Field("syphilis_treated_pct", "calculated", <<"(", "syphilis_treated", "/",
               "syphilis_positive_documented", ")", "*", "100">>),
                   Field("hepb_positive_documented", "number", <<>>),
                   Field("hepb_vl_high_documented", "number", <<>>),
                   Field("hepb_art_initiated", "number", <<>>),
                   Field("hepb_art_pct", "calculated", <<"(", "hepb_art_initiated", "/",
               "hepb_vl_high_documented", ")", "*", "100">>),
                   Field("average_pct", "calculated", <<"(", "art_pct", "+",
               "syphilis_treated_pct", "+", "hepb_art_pct", ")", "/", "3">>) >>] >>],
      [key |-> "art_pmtct", questions |-> <<
         [Asked("ap_q1", "multi_yes_no", {}, {Rule("any_no", "red")}) EXCEPT
            !.items = <<
                          <<"S", "T", "I", " ", "/", "c", "a", " ", "c", "x", "/", " ", "G",
               "B", "V", " ", "s", "c", "r", "e", "e", "n", "i", "n", "g">>,
                          <<"F", "P">>, <<"V", "L", " ", "t", "e", "s", "t", "i", "n", "g">>,
                          <<"I", "A", "C">>, <<"C", "D", "4">>, <<"C", "T", "X">> >>],
         Asked("ap_q2", "chart_review_table", {}, {Rule("<60", "red"), Rule("60-79", "yellow"),
               Rule("80-89", "light_green"), Rule(">=90", "dark_green")}) >>],
      [key |-> "patient_tracking", questions |-> <<
         Asked("pt_q1", "yes_no_with_text", {}, {Rule("no", "red"), RuleNext("yes", "pt_q2")}),
         Asked("pt_q2", "yes_no", {"pt_q1"}, {Rule("no", "yellow"), RuleNext("yes", "pt_q3")}),
         Asked("pt_q3", "yes_no", {"pt_q2"}, {Rule("no", "yellow"), RuleNext("yes", "pt_q4")}),
         Asked("pt_q4", "yes_no", {"pt_q3"}, {Rule("no", "light_green"), Rule("yes",
               "dark_green")}) >>],
      [key |-> "adherence_support", questions |-> <<
         Asked("as_q1", "yes_no", {}, {Rule("no", "red"), RuleNext("yes", "as_q2")}),
         Asked("as_q2", "yes_no", {"as_q1"}, {Rule("no", "yellow"), RuleNext("yes", "as_q3")}),
         Asked("as_q3", "percentage_input", {"as_q2"}, {Rule("<60", "yellow"), Rule("60-79",
               "light_green"), Rule(">=80", "continue")}),
         Asked("as_q4", "yes_no", {"as_q3"}, {Rule("no", "light_green"), Rule("yes",
               "dark_green")}) >>],
      [key |-> "community_linkage", questions |-> <<
         Asked("cl_q1", "yes_no", {}, {Rule("no", "red"), RuleNext("yes", "cl_q2")}),
         Asked("cl_q2", "yes_no", {"cl_q1"}, {Rule("no", "yellow"), RuleNext("yes", "cl_q3")}),
         Asked("cl_q3", "yes_no", {"cl_q2"}, {Rule("no", "light_green"), Rule("yes",
               "dark_green")}) >>],
      [key |-> "sti_screening", questions |-> <<
         Asked("sti_q1", "yes_no", {}, {Rule("no", "red"), RuleNext("yes", "sti_q2")}),
         Asked("sti_q2", "yes_no", {"sti_q1"}, {Rule("no", "yellow"), RuleNext("yes", "sti_q3")}),
         Asked("sti_q3", "percentage_input", {"sti_q2"}, {Rule("<70", "yellow"), Rule(">=70",
               "continue")}),
         Asked("sti_q4", "yes_no", {"sti_q3"}, {Rule("no", "light_green"), Rule("yes",
               "dark_green")}) >>],
      [key |-> "eid", questions |-> <<
         Asked("eid_q1", "yes_no", {}, {RuleTo("no", "skip_to", "eid_q5"), RuleNext("yes",
               "eid_q2")}),
         Asked("eid_q2", "yes_no", {"eid_q1"}, {Rule("no", "red"), RuleNext("yes", "eid_q3")}),
         Asked("eid_q3", "yes_no", {"eid_q2"}, {Rule("no", "yellow"), RuleNext("yes", "eid_q4")}),
         Asked("eid_q4", "number_input", {"eid_q3"}, {Rule("0", "dark_green"), Rule("1",
               "light_green"), Rule("2", "yellow"), Rule(">=3", "red")}),
         Asked("eid_q5", "yes_no", {"eid_q1"}, {Rule("no", "red"), RuleNext("yes", "eid_q6")}),
         Asked("eid_q6", "yes_no", {"eid_q5"}, {Rule("no", "yellow"), RuleNext("yes", "eid_q7")}),
         Asked("eid_q7", "yes_no", {"eid_q6"}, {Rule("no", "light_green"), Rule("yes",
               "dark_green")}) >>],
      [key |-> "ctx_hei", questions |-> <<
         Asked("ctx_q1", "number_input", {}, {Rule("0_continue", "dark_green"), Rule("1",
               "light_green"), Rule("2", "yellow"), Rule(">=3", "red")}),
         Asked("ctx_q2", "yes_no", {"ctx_q1"}, {Rule("no", "light_green"), Rule("yes",
               "dark_green")}) >>],
      [key |-> "tracking_hei", questions |-> <<
         Asked("thei_q1", "yes_no", {}, {Rule("no", "red"), RuleNext("yes", "thei_q2")}),
         Asked("thei_q2", "yes_no", {"thei_q1"}, {Rule("no", "yellow"), RuleNext("yes",
               "thei_q3")}),
         Asked("thei_q3", "yes_no", {"thei_q2"}, {Rule("no", "yellow"), RuleNext("yes",
               "thei_q4")}),
         Asked("thei_q4", "yes_no", {"thei_q3"}, {Rule("no", "light_green"), RuleNext("yes",
               "thei_q5")}),
         Asked("thei_q5", "yes_no", {"thei_q4"}, {Rule("no", "light_green"), Rule("yes",
               "dark_green")}) >>],
      [key |-> "enrollment_hiv_infants", questions |-> <<
         Asked("ehi_q1", "yes_no", {}, {Rule("no", "red"), RuleNext("yes", "ehi_q2")}),
         Asked("ehi_q2", "yes_no", {"ehi_q1"}, {Rule("no", "yellow"), RuleNext("yes", "ehi_q3")}),
         Asked("ehi_q3", "number_input", {"ehi_q2"}, {Rule("0", "dark_green"), Rule("1",
               "light_green"), Rule("2", "yellow"), Rule(">=3", "red")}) >>],
      [key |-> "hei_eid_registers", questions |-> <<
         Asked("heir_q1", "yes_no", {}, {Rule("no", "red"), RuleNext("yes", "heir_q2")}),
         Asked("heir_q2", "multi_checkbox", {"heir_q1"}, {Rule("not_all", "red"),
               RuleNext("all", "heir_q3")}),
         Asked("heir_q3", "multi_checkbox", {"heir_q2"}, {Rule("not_all", "yellow"),
               RuleNext("all", "heir_q4")}),
         Asked("heir_q4", "yes_no", {"heir_q3"}, {Rule("no", "light_green"), Rule("yes",
               "dark_green")}) >>],
      [key |-> "supply_chain_eid", questions |-> <<
         Asked("sceid_q1", "yes_no", {}, {Rule("yes", "red"), RuleNext("no", "sceid_q2")}),
         Asked("sceid_q2", "yes_no", {"sceid_q1"}, {Rule("yes", "yellow"), RuleNext("no",
               "sceid_q3")}),
         Asked("sceid_q3", "yes_no", {"sceid_q2"}, {Rule("no", "light_green"), Rule("yes",
               "dark_green")}) >>],
      [key |-> "supply_chain_hiv_pmtct", questions |-> <<
         Asked("schiv_q1", "yes_no", {}, {}),
         Asked("schiv_q2", "number_input", {}, {}),
         Asked("schiv_q3", "yes_no", {}, {}),
         Asked("schiv_q4", "number_input", {}, {}),
         Asked("schiv_q5", "yes_no", {}, {}),
         Asked("schiv_q6", "number_input", {}, {}),
         Asked("schiv_q7", "yes_no", {}, {Rule("no", "green"), Rule("yes", "red")}),
         Asked("schiv_q8", "yes_no", {}, {Rule("no", "green"), Rule("yes", "red")}),
         Asked("schiv_q9", "yes_no", {}, {Rule("no", "red"), Rule("yes", "dark_green")}) >>],
      [key |-> "supply_chain_syphilis", questions |-> <<
         Asked("scsyph_q1", "yes_no", {}, {}),
         Asked("scsyph_q2", "number_input", {}, {}),
         Asked("scsyph_q3", "yes_no", {}, {}),
         Asked("scsyph_q4", "number_input", {}, {}),
         Asked("scsyph_q5", "yes_no", {}, {Rule("no", "light_green"), Rule("yes", "red")}),
         Asked("scsyph_q6", "yes_no", {}, {Rule("no", "light_green"), Rule("yes", "red")}),
         Asked("scsyph_q7", "yes_no", {}, {Rule("no", "red"), Rule("yes", "dark_green")}) >>],
      [key |-> "supply_chain_hepb", questions |-> <<
         Asked("schepb_q1", "yes_no", {}, {}),
         Asked("schepb_q2", "number_input", {}, {}),
         Asked("schepb_q3", "yes_no", {}, {}),
         Asked("schepb_q4", "number_input", {}, {}),
         Asked("schepb_q5", "yes_no", {}, {}),
         Asked("schepb_q6", "number_input", {}, {}),
         Asked("schepb_q7", "yes_no", {}, {Rule("yes", "red"), Rule("no", "continue")}),
         Asked("schepb_q8", "yes_no", {}, {Rule("yes", "yellow"), Rule("no", "continue")}),
         Asked("schepb_q9", "yes_no", {}, {Rule("no", "red"), Rule("yes", "dark_green")}) >>],
      [key |-> "human_resources", questions |-> <<
         Asked("hr_q1", "radio", {}, {}),
         Asked("hr_q2", "text_input", {"hr_q1"}, {}),
         Asked("hr_q3", "yes_no", {}, {}),
         Asked("hr_q4", "multi_checkbox", {}, {}),
         Asked("hr_q5", "multi_checkbox", {}, {}),
         Asked("hr_q6", "multi_checkbox", {}, {}),
         Asked("hr_q7a", "multi_checkbox", {}, {}),
         Asked("hr_q7b", "multi_checkbox", {}, {}),
         Asked("hr_q7c", "multi_checkbox", {}, {}),
         Asked("hr_q8", "multi_checkbox", {}, {}),
         Asked("hr_q9", "yes_no", {}, {}),
         Asked("hr_q10", "text_area", {}, {}) >>]
    >>

QuestionSpecifications == [tool |-> ToolSectionQuestions, pmtct |-> PmtctSectionQuestions]

\* where a question stands: its specification, its section and its place in it
Positions ==
    UNION {UNION {{[source |-> src, section |-> s, question |-> q] :
                      q \in 1..Len(QuestionSpecifications[src][s].questions)} :
                  s \in 1..Len(QuestionSpecifications[src])} :
           src \in DOMAIN QuestionSpecifications}

SectionAt(p) == QuestionSpecifications[p.source][p.section]
QuestionAt(p) == SectionAt(p).questions[p.question]

\* the ids of the section's questions that have a scoring
ScoredQuestionIds(section) ==
    {section.questions[i].id :
        i \in {j \in 1..Len(section.questions) : section.questions[j].scoring # {}}}

\* the ids of the section's questions
SectionQuestionIds(section) ==
    {section.questions[i].id : i \in 1..Len(section.questions)}

\* the ids of the questions of the section whose depends_on names q
Dependents(section, q) ==
    {section.questions[i].id :
        i \in {j \in 1..Len(section.questions) : q.id \in section.questions[j].depends_on}}

\* the answers a scored question resolves: those its scoring names and, for a
\* multi-item question, both aggregates of its items
AcceptedAnswers(q) ==
    {r.answer : r \in q.scoring}
    \cup (IF q.type \in {"multi_yes_no", "checklist"} THEN {"any_no", "all_yes"} ELSE {})

\* the outcome the scoring gives an answer, "none" when it names none
OutcomeOf(q, answer) ==
    LET hits == {r \in q.scoring : r.answer = answer}
    IN  IF hits = {} THEN "none" ELSE (CHOOSE r \in hits : TRUE).outcome

\* the names a formula uses: its tokens that are neither operators nor numbers
FormulaOperators == {"(", ")", "/", "*", "+", "-"}
FormulaNumbers == {"100", "3"}
FormulaNames(formula) ==
    {formula[i] : i \in 1..Len(formula)} \ (FormulaOperators \cup FormulaNumbers)

FieldIds(q) == {q.fields[i].id : i \in 1..Len(q.fields)}

\* str.lower() on the letters of the labels
UpperCase ==
    <<"A", "B", "C", "D", "E", "F", "G", "H", "I", "J", "K", "L", "M",
      "N", "O", "P", "Q", "R", "S", "T", "U", "V", "W", "X", "Y", "Z">>
LowerCase ==
    <<"a", "b", "c", "d", "e", "f", "g", "h", "i", "j", "k", "l", "m",
      "n", "o", "p", "q", "r", "s", "t", "u", "v", "w", "x", "y", "z">>
Lower(text) ==
    [i \in 1..Len(text) |->
        IF \E k \in 1..Len(UpperCase) : UpperCase[k] = text[i]
        THEN LowerCase[CHOOSE k \in 1..Len(UpperCase) : UpperCase[k] = text[i]]
        ELSE text[i]]

\* str.replace(old, new) for a one-character old
RECURSIVE Replace(_, _, _)
Replace(text, old, new) ==
    IF text = <<>> THEN <<>>
    ELSE (IF Head(text) = old THEN new ELSE <<Head(text)>>)
         \o Replace(Tail(text), old, new)

\* f"{q_id}_{suffix}": the id of the question, the underscore, then the characters
ItemId(q_id, suffix) == <<q_id, "_">> \o suffix

\* _create_summary_sheet: f"{q['id']}_{item.lower().replace(' ', '_')}"
SummarySheetItemId(q_id, item) == ItemId(q_id, Replace(Lower(item), " ", <<"_">>))

\* _create_details_sheet:
\* f"{q_id}_{item.lower().replace(' ', '_').replace('/', '_').replace('.', '')}"
DetailsSheetItemId(q_id, item) ==
    ItemId(q_id, Replace(Replace(Replace(Lower(item), " ", <<"_">>), "/", <<"_">>),
                         ".", <<>>))

\* WordGenerator._create_summary_section: f"{q['id']}_{item.lower().replace(' ', '_')}"
WordSummaryItemId(q_id, item) == ItemId(q_id, Replace(Lower(item), " ", <<"_">>))

\* PDFGenerator._generate_section_content:
\* f"{q_id}_{item.lower().replace(' ', '_').replace('/', '_').replace('.', '')}"
PdfItemId(q_id, item) ==
    ItemId(q_id, Replace(Replace(Replace(Lower(item), " ", <<"_">>), "/", <<"_">>),
                         ".", <<>>))

----------------------------------------------------------------------------
(* Reading the question specification: one question, field or item at a time *)

OutcomeLookups ==
    UNION {{[fn |-> "outcome", at |-> p, answer |-> a] : a \in AcceptedAnswers(QuestionAt(p))} :
           p \in {pp \in Positions : QuestionAt(pp).scoring # {}}}

DependsOnLookups ==
    {[fn |-> "depends_on", at |-> p] : p \in {pp \in Positions : QuestionAt(pp).depends_on # {}}}

FormulaLookups ==
    UNION {{[fn |-> "formula", at |-> p, field |-> f] :
               f \in {i \in 1..Len(QuestionAt(p).fields) :
                         QuestionAt(p).fields[i].type = "calculated"}} :
           p \in Positions}

\* the items the report generators walk: those of the multi_yes_no questions of the
\* section definitions, which are TOOL_SECTIONS
ItemLookups ==
    UNION {{[fn |-> "item_id", at |-> p, item |-> i] : i \in 1..Len(QuestionAt(p).items)} :
           p \in {pp \in Positions : pp.source = "tool"}}

\* the outcome of an answer to a question, and the questions that depend on it
ResolveOutcome ==
    /\ callIn.fn = "outcome"
    /\ callOut = NoCall
    /\ callOut' = [fn |-> "outcome",
                   outcome |-> OutcomeOf(QuestionAt(callIn.at), callIn.answer),
                   dependents |-> Dependents(SectionAt(callIn.at), QuestionAt(callIn.at))]
    /\ UNCHANGED <<reportVars, evalVars, callIn, webVars, hostVars>>

\* the depends_on of a question, looked up among the questions of its section
ResolveDependsOn ==
    /\ callIn.fn = "depends_on"
    /\ callOut = NoCall
    /\ callOut' = [fn |-> "depends_on",
                   depends_on |-> QuestionAt(callIn.at).depends_on,
                   question_ids |-> SectionQuestionIds(SectionAt(callIn.at))]
    /\ UNCHANGED <<reportVars, evalVars, callIn, webVars, hostVars>>

\* the names of a calculated field's formula, and the field ids of its question
ResolveFormula ==
    /\ callIn.fn = "formula"
    /\ callOut = NoCall
    /\ callOut' = [fn |-> "formula",
                   names |-> FormulaNames(QuestionAt(callIn.at).fields[callIn.field].formula),
                   field_ids |-> FieldIds(QuestionAt(callIn.at))]
    /\ UNCHANGED <<reportVars, evalVars, callIn, webVars, hostVars>>

\* the identifier each report derives for one item of a multi_yes_no question
DeriveItemIds ==
    /\ callIn.fn = "item_id"
    /\ callOut = NoCall
    /\ LET q == QuestionAt(callIn.at)
           item == q.items[callIn.item]
       IN  callOut' = [fn |-> "item_id",
                       summary_sheet |-> SummarySheetItemId(q.id, item),
                       details_sheet |-> DetailsSheetItemId(q.id, item),
                       word_summary |-> WordSummaryItemId(q.id, item),
                       pdf |-> PdfItemId(q.id, item)]
    /\ UNCHANGED <<reportVars, evalVars, callIn, webVars, hostVars>>

InitQuestions ==
    /\ HostIdle
    /\ callIn \in OutcomeLookups \cup DependsOnLookups \cup FormulaLookups \cup ItemLookups
    /\ callOut = NoCall
    /\ ReportIdle
    /\ EvalIdle
    /\ WebIdle

NextQuestions ==
    \/ ResolveOutcome
    \/ ResolveDependsOn
    \/ ResolveFormula
    \/ DeriveItemIds

SpecQuestions == InitQuestions /\ [][NextQuestions]_vars

----------------------------------------------------------------------------
(* FileManager.cleanup_temp_file on the temporary directory of the host *)

\* os.path.exists(filepath); the empty path names nothing
Exists(fs, filepath) == filepath \in DOMAIN fs /\ fs[filepath] # "absent"

\* os.remove(filepath): deletes a file; raises OSError for a path that is absent, a
\* directory, or a file whose deletion the host refuses, and then changes nothing
Remove(fs, filepath) ==
    IF filepath \in DOMAIN fs /\ fs[filepath] = "file"
    THEN [raised |-> FALSE, files |-> [fs EXCEPT ![filepath] = "absent"]]
    ELSE [raised |-> TRUE, files |-> fs]

\* cleanup_temp_file without its try block: what os.remove raises reaches the caller
CleanupTempFileUnguarded(fs, filepath) ==
    IF filepath # "" /\ Exists(fs, filepath)
    THEN LET removal == Remove(fs, filepath)
         IN  [returned |-> ~removal.raised, raised |-> removal.raised,
              files |-> removal.files]
    ELSE [returned |-> FALSE, raised |-> FALSE, files |-> fs]

\* cleanup_temp_file(filepath): returned is the value returned, raised whether an
\* exception leaves the function, files the directory afterwards.  log_function_call
\* returns what the function returns and re-raises what it raises.
CleanupTempFile(fs, filepath) ==
    IF filepath # "" /\ Exists(fs, filepath)
    THEN LET removal == Remove(fs, filepath)
         IN  IF removal.raised
             THEN [returned |-> FALSE, raised |-> FALSE, files |-> removal.files]
             ELSE [returned |-> TRUE, raised |-> FALSE, files |-> removal.files]
    ELSE [returned |-> FALSE, raised |-> FALSE, files |-> fs]

\* a call of cleanup_temp_file; callIn keeps the directory as the call found it
CallCleanupTempFile ==
    \E filepath \in Filepaths :
        LET outcome == CleanupTempFile(files, filepath)
        IN  /\ callIn' = [fn |-> "cleanup_temp_file", filepath |-> filepath,
                          files |-> files]
            /\ callOut' = outcome
            /\ files' = outcome.files
            /\ UNCHANGED <<reportVars, evalVars, webVars, rate_limit_data, now, reached>>

\* a report generator saves a workbook or a document under a path of the directory
SaveReport ==
    \E filepath \in TempPaths :
        /\ files[filepath] \in {"absent", "file"}
        /\ files' = [files EXCEPT ![filepath] = "file"]
        /\ UNCHANGED <<reportVars, evalVars, callVars, webVars,
                       rate_limit_data, now, reached>>

\* the directory is in any state the host can leave it in
InitFiles ==
    /\ ReportIdle
    /\ EvalIdle
    /\ WebIdle
    /\ callIn = NoCall
    /\ callOut = NoCall
    /\ files \in [TempPaths -> PathStates]
    /\ rate_limit_data = <<>>
    /\ now = 0
    /\ reached = <<>>

NextFiles ==
    \/ CallCleanupTempFile
    \/ SaveReport

SpecFiles == InitFiles /\ [][NextFiles]_vars

----------------------------------------------------------------------------
(* rate_limit: the decorator next to the view function of six routes.  Flask's    *)
(* development server, which app.run starts, answers each request in a thread of   *)
(* its own, so the decorator is modelled in two steps: the threads share           *)
(* app.rate_limit_data, and the test of its length and the append of current_time  *)
(* are separate operations between which another thread's request can run.         *)
(* The limits and the window are scaled down: the source has 50 and 20 requests    *)
(* in 3600 seconds.                                                                 *)

SubmitDataLimit == 3
SubmitAssessmentLimit == 2
RateWindow == 2
MaxTime == 2

\* @rate_limit(max_requests = ..., window = ...) of /submit and /submit-assessment
max_requests ==
    [submit_data |-> SubmitDataLimit, submit_assessment |-> SubmitAssessmentLimit]

RateLimited == DOMAIN max_requests

\* app.rate_limit_data[client_ip] once the decorator has created the entry
RequestTimes(data, client_ip) ==
    IF client_ip \in DOMAIN data THEN data[client_ip] ELSE <<>>

\* app.rate_limit_data[client_ip] = requests
StoreRequestTimes(data, client_ip, requests) ==
    [ip \in DOMAIN data \cup {client_ip} |->
        IF ip = client_ip THEN requests ELSE data[ip]]

\* [req_time for req_time in requests if current_time - req_time < window]
CleanOldRequests(requests, current_time) ==
    SelectSeq(requests, LAMBDA req_time : current_time - req_time < RateWindow)

\* the first half of decorated_function: read the address and the clock, create and
\* clean the client's list, and answer 429 if it holds max_requests times
RateLimitCheck(w, endpoint, client_ip) ==
    /\ handlers[w] = IdleHandler
    /\ LET current_time == now
           requests == CleanOldRequests(RequestTimes(rate_limit_data, client_ip),
                                        current_time)
       IN  /\ rate_limit_data' = StoreRequestTimes(rate_limit_data, client_ip, requests)
           /\ handlers' = [handlers EXCEPT ![w] =
                  [pc |-> IF Len(requests) >= max_requests[endpoint]
                          THEN "refused" ELSE "admitted",
                   endpoint |-> endpoint, client_ip |-> client_ip,
                   current_time |-> current_time]]
    /\ UNCHANGED <<reportVars, evalVars, callVars, SESSION_VERSION, session,
                   participants, files, now, reached>>

\* the second half: record the request and run the view function
RateLimitAppend(w) ==
    /\ handlers[w].pc = "admitted"
    /\ LET request == handlers[w]
       IN  /\ rate_limit_data' =
                  StoreRequestTimes(rate_limit_data, request.client_ip,
                      Append(RequestTimes(rate_limit_data, request.client_ip),
                             request.current_time))
           /\ reached' = [reached EXCEPT
                  ![request.endpoint][request.client_ip][request.current_time] = @ + 1]
    /\ handlers' = [handlers EXCEPT ![w] = IdleHandler]
    /\ UNCHANGED <<reportVars, evalVars, callVars, SESSION_VERSION, session,
                   participants, files, now>>

\* the 429 answer is sent
RateLimitExceeded(w) ==
    /\ handlers[w].pc = "refused"
    /\ handlers' = [handlers EXCEPT ![w] = IdleHandler]
    /\ UNCHANGED <<reportVars, evalVars, callVars, SESSION_VERSION, session,
                   participants, hostVars>>

\* a second passes on the clock of time.time()
Tick ==
    /\ now < MaxTime
    /\ now' = now + 1
    /\ UNCHANGED <<reportVars, evalVars, callVars, webVars, files, rate_limit_data,
                   reached>>

InitRate ==
    /\ ReportIdle
    /\ EvalIdle
    /\ WebIdle
    /\ callIn = NoCall
    /\ callOut = NoCall
    /\ files = [p \in TempPaths |-> "absent"]
    /\ rate_limit_data = <<>>
    /\ now = 0
    /\ reached = [endpoint \in RateLimited |->
                     [client_ip \in ClientIPs |-> [t \in 0..MaxTime |-> 0]]]

NextRate ==
    \/ \E w \in Handlers, endpoint \in RateLimited, client_ip \in ClientIPs :
           RateLimitCheck(w, endpoint, client_ip)
    \/ \E w \in Handlers : RateLimitAppend(w)
    \/ \E w \in Handlers : RateLimitExceeded(w)
    \/ Tick

SpecRate == InitRate /\ [][NextRate]_vars

----------------------------------------------------------------------------
(* Section detection: the report generators decide from the keys of the scores   *)
(* map which sections a payload holds data of, with section_definitions =        *)
(* TOOL_SECTIONS as the download routes set it.                                   *)

Sections == {TOOL_SECTIONS[i] : i \in 1..Len(TOOL_SECTIONS)}

\* the keys a scores map gives the data of section S: S itself, S + '_' + a question
\* id, S + '_' + an item id that is another section's key
KeysOfSection(S) ==
    {S, S \o <<"q1">>} \cup {S \o other : other \in Sections \ {S}}

\* scores maps holding data of one section only
SectionScoreMaps(S) ==
    {[k \in keys |-> IntV(3)] :
        keys \in {{S}, {S \o <<"q1">>}, {S, S \o <<"q1">>}} \cup
                 {{k} : k \in KeysOfSection(S)}}

DetectCalls ==
    UNION {{[fn |-> "detect", section |-> S, scores |-> sc] :
               sc \in SectionScoreMaps(S)} : S \in Sections}

\* create_assessment_excel, "Detect if this is a section-specific download"
DetectSectionDownload ==
    /\ callIn.fn = "detect"
    /\ callOut = NoCall
    /\ LET sections_with_data == SectionsWithData(callIn.scores, TOOL_SECTIONS)
       IN  callOut' = [fn |-> "create_assessment_excel",
                       sections_with_data |-> sections_with_data,
                       is_section_download |-> Len(sections_with_data) = 1]
    /\ UNCHANGED <<reportVars, evalVars, callIn, webVars, hostVars>>

\* create_section_pdf, "Identify the section": the first key of section_definitions
\* with data, an exception if there is none
IdentifySection ==
    /\ callIn.fn = "detect"
    /\ callOut = NoCall
    /\ LET with_data == SectionsWithData(callIn.scores, TOOL_SECTIONS)
       IN  callOut' = IF with_data = <<>>
                      THEN [fn |-> "create_section_pdf", raised |-> TRUE,
                            section_key |-> <<>>]
                      ELSE [fn |-> "create_section_pdf", raised |-> FALSE,
                            section_key |-> with_data[1]]
    /\ UNCHANGED <<reportVars, evalVars, callIn, webVars, hostVars>>

InitDetect ==
    /\ HostIdle
    /\ ReportIdle
    /\ EvalIdle
    /\ WebIdle
    /\ callIn \in DetectCalls
    /\ callOut = NoCall

NextDetect ==
    \/ DetectSectionDownload
    \/ IdentifySection

SpecDetect == InitDetect /\ [][NextDetect]_vars

----------------------------------------------------------------------------
(* Properties of the aggregation, checked under Spec *)

\* n / d for naturals n and d > 0 rounded to a whole number, ties to the even
\* neighbour, in exact arithmetic
RoundHalfEven(n, d) ==
    LET q == n \div d
        r == n % d
    IN  IF 2 * r < d THEN q
        ELSE IF 2 * r > d THEN q + 1
        ELSE IF q % 2 = 0 THEN q ELSE q + 1

SummaryDone == summary.kind # "none" /\ ~summary.raised

\* C1: the performance band of every computed summary is EXCELLENT exactly when the
\* percentage is >= 75, GOOD exactly when 50 <= p < 75, NEEDS IMPROVEMENT exactly when
\* 25 <= p < 50 and CRITICAL exactly when p < 25; 75, 50 and 25 fall in the higher band.
BandMatchesPercentage ==
    SummaryDone =>
        LET p == summary.percentage
            b == summary.performance
        IN  /\ (b = "EXCELLENT") <=> (p >= 750)
            /\ (b = "GOOD") <=> (500 <= p /\ p < 750)
            /\ (b = "NEEDS IMPROVEMENT") <=> (250 <= p /\ p < 500)
            /\ (b = "CRITICAL") <=> (p < 250)

\* a summary whose percentage is exactly 75.0, 50.0 or 25.0
BandBoundaryReached ==
    /\ SummaryDone
    /\ summary.percentage = 500
    /\ summary.performance = "GOOD"
    /\ ~summary.is_section_download

\* a score that is absent, None, '' or 'N/A'
NotAnsweredValue(v) ==
    \/ v.t \in {"absent", "none"}
    \/ v.t = "str" /\ v.s \in {<<>>, <<"N", "/", "A">>}

RawScore(sc, key) == IF key \in DOMAIN sc THEN sc[key] ELSE Absent

AnsweredSections(sc, section_ids) ==
    SelectSeq(section_ids, LAMBDA key : ~NotAnsweredValue(RawScore(sc, key)))

\* C2: in the overall summary the denominator is 4 times the number of sections that
\* are neither not-applicable nor not-answered.
DenominatorCountsScoredSections ==
    (SummaryDone /\ ~summary.is_section_download) =>
        summary.total_possible = 4 * Len(AnsweredSections(scores, summary.section_ids))

\* C3: a section whose score is absent, empty, None or 'N/A' adds nothing to the
\* numerator and is not counted among the sections assessed: the totals are those of
\* the answered sections alone, and are 0 when the one section of a section report
\* is not answered.
NotAnsweredAddsNothing ==
    SummaryDone =>
        IF summary.is_section_download
        THEN NotAnsweredValue(RawScore(scores, summary.sections_with_data[1])) =>
                 summary.total_scored = 0 /\ summary.scored_indicators = 0
        ELSE LET answered == AnsweredSections(scores, summary.section_ids)
                 t == LoopTotals(scores, answered)
             IN  /\ summary.total_scored = t.scored
                 /\ summary.scored_indicators = t.indicators
                 /\ summary.scored_indicators <= Len(answered)

\* an overall summary over sections of which one is graded and another is absent
NotAnsweredBesideScored ==
    /\ SummaryDone
    /\ ~summary.is_section_download
    /\ summary.scored_indicators >= 1
    /\ Len(AnsweredSections(scores, summary.section_ids)) < Len(summary.section_ids)
    /\ \E i \in 1..Len(summary.section_ids) :
           RawScore(scores, summary.section_ids[i]).t = "str"
           /\ RawScore(scores, summary.section_ids[i]).s = <<"N", "/", "A">>

\* C4: every overall percentage computed for a scores map the validator accepts lies
\* between 0 and 100: the summary percentage and the overall_score of
\* submit_assessment.
PercentagesWithinRange ==
    (response.status = 200) =>
        /\ SummaryDone => (0 <= summary.percentage /\ summary.percentage <= 1000)
        /\ 0 <= response.overall.num
        /\ response.overall.num <= 100 * response.overall.den

\* C5: a section report whose section has grade g in 1..4 shows g / 4 x 100 percent;
\* g = 3 gives 75.0 and EXCELLENT.
SingleSectionKeepsGrade ==
    (SummaryDone /\ summary.is_section_download) =>
        LET score == RawScore(scores, summary.sections_with_data[1])
        IN  (score.t = "int" /\ score.n \in 1..4) =>
                /\ summary.percentage = 250 * score.n
                /\ (score.n = 3 => summary.percentage = 750
                                   /\ summary.performance = "EXCELLENT")

\* a section report of a light_green section
LightGreenSectionReport ==
    /\ SummaryDone
    /\ summary.is_section_download
    /\ RawScore(scores, summary.sections_with_data[1]) = IntV(3)
    /\ summary.performance = "EXCELLENT"

\* C6: with no scorable section the percentage is 0 and the band CRITICAL, and nothing
\* is raised: a summary over no section definitions, and the overall score of an
\* empty scores map.
ZeroDenominatorIsZeroPercent ==
    /\ (summary.kind # "none" /\ summary.section_ids = <<>>) =>
           /\ ~summary.raised
           /\ summary.total_possible = 0
           /\ summary.percentage = 0
           /\ summary.performance = "CRITICAL"
    /\ (response.endpoint = "submit_assessment" /\ PresentKeys(scores) = {}) =>
           /\ response.status # 500
           /\ response.overall.num = 0

\* a submission with neither scores nor section definitions, answered
EmptySubmissionAnswered ==
    /\ response.endpoint = "submit_assessment"
    /\ response.status = 200
    /\ PresentKeys(scores) = {}
    /\ summary.kind = "excel"
    /\ summary.section_ids = <<>>
    /\ summary.percentage = 0

\* a str that float() refuses
Unparseable(v) == v.t = "str" /\ ~NotAnsweredValue(v) /\ ~Float(v).ok

\* C10: a value that cannot be parsed never aborts scoring: with such a value in the
\* scores map, neither the summary computation raises nor the request fails.
BadValueNeverAborts ==
    (\E k \in DOMAIN scores : Unparseable(scores[k])) =>
        /\ ~summary.raised
        /\ response.status # 500

----------------------------------------------------------------------------
(* Properties of the evaluator and of the question specification, checked under  *)
(* SpecEval                                                                       *)

FourGradeMappings == {"tool_tet_q2", "pmtct_tet_q2", "pmtct_ap_q2"}

\* C8: buckets are inclusive on their lower bound, exclusive on their upper bound, the
\* top one unbounded above: under <60, 60-79, 80-89, >=90 the value 60 grades yellow,
\* 59.999 red, 90 dark_green and 89.999 light_green.
BoundaryOpensHigherBucket ==
    (evalOut.kind = "threshold" /\ evalIn.name \in FourGradeMappings) =>
        LET v == evalIn.value
            g == evalOut.grade
        IN  /\ (g = "red") <=> (v < 60000)
            /\ (g = "yellow") <=> (60000 <= v /\ v < 80000)
            /\ (g = "light_green") <=> (80000 <= v /\ v < 90000)
            /\ (g = "dark_green") <=> (90000 <= v)
            /\ (v = 60000 => g = "yellow")
            /\ (v = 59999 => g = "red")
            /\ (v = 90000 => g = "dark_green")
            /\ (v = 89999 => g = "light_green")

\* 89.999 graded under the thresholds of PMTCT_ASSESSMENT tet_q2
JustBelowNinetyGraded ==
    /\ evalOut.kind = "threshold"
    /\ evalIn.name = "pmtct_tet_q2"
    /\ evalIn.value = 89999
    /\ evalOut.grade = "light_green"

\* value lies in the bucket as the specification writes it: "<b", "a-b", ">=a", "a"
InDeclaredBucket(bucket, value) ==
    IF bucket.op = "<" THEN value < bucket.lo
    ELSE IF bucket.op = ">=" THEN value >= bucket.lo
    ELSE bucket.lo <= value /\ value <= bucket.hi

DeclaredBucketsOf(thresholds, value) ==
    {i \in 1..Len(thresholds) : InDeclaredBucket(thresholds[i], value)}

\* the buckets are listed in ascending or in descending order of their bounds
BucketsOrdered(thresholds) ==
    \/ \A i \in 1..(Len(thresholds) - 1) : thresholds[i].hi <= thresholds[i + 1].lo
    \/ \A i \in 1..(Len(thresholds) - 1) : thresholds[i + 1].hi <= thresholds[i].lo

----------------------------------------------------------------------------
(* Properties of functions called on their own, checked under SpecCalls *)

\* the exact quotient total_scored / total_possible x 100 has a 5 in its second
\* decimal place and nothing after it
ExactTie(n, d) == d > 0 /\ (n * 10000) % d = 0 /\ ((n * 10000) \div d) % 10 = 5

\* C11: whenever total_scored / total_possible x 100 lies exactly half way between two
\* one-decimal values, the percentage reported is the one of the two whose last
\* digit is even.
TiesRoundToEven ==
    (callOut.fn = "percentage" /\ ExactTie(callIn.total_scored, callIn.total_possible)) =>
        LET below == (callIn.total_scored * 1000) \div callIn.total_possible
        IN  /\ callOut.value \in {below, below + 1}
            /\ callOut.value % 2 = 0
            /\ callOut.value =
                   RoundHalfEven(callIn.total_scored * 1000, callIn.total_possible)

\* the length of a text without the whitespace around it
CoreLength(text) ==
    LET inked == {i \in 1..Len(text) : text[i] \notin Whitespace}
    IN  IF inked = {} THEN 0
        ELSE (CHOOSE i \in inked : \A j \in inked : j <= i)
             - (CHOOSE i \in inked : \A j \in inked : i <= j) + 1

\* 07 plus 8 digits, or +2567 plus 8 digits
UgandanMobile(digits) ==
    \/ /\ Len(digits) = 10
       /\ SubSeq(digits, 1, 2) = <<"0", "7">>
       /\ \A i \in 3..10 : digits[i] \in {"0", "1", "2", "3", "4", "5", "6", "7", "8", "9"}
    \/ /\ Len(digits) = 13
       /\ SubSeq(digits, 1, 5) = <<"+", "2", "5", "6", "7">>
       /\ \A i \in 6..13 : digits[i] \in {"0", "1", "2", "3", "4", "5", "6", "7", "8", "9"}

\* all six fields present and not blank, the five texts within their bounds, the
\* number well formed once its whitespace is removed
WellFormedParticipant(participant) ==
    /\ \A f \in DOMAIN participant :
           participant[f].present /\ CoreLength(participant[f].text) > 0
    /\ CoreLength(participant["participantName"].text) \in 2..100
    /\ CoreLength(participant["cadre"].text) \in 2..50
    /\ CoreLength(participant["dutyStation"].text) \in 2..100
    /\ CoreLength(participant["district"].text) \in 2..50
    /\ CoreLength(participant["mobileMoneyName"].text) \in 2..100
    /\ UgandanMobile(SelectSeq(participant["mobileNumber"].text,
                               LAMBDA c : c \notin Whitespace))

\* C21: validate_participant_data answers is_valid = true exactly when its error list
\* is empty, and exactly when the six required fields are present and not blank, the
\* text fields are within their length bounds (counted without the whitespace around
\* them) and mobileNumber without its whitespace is 07 or +2567 plus 8 digits.
ValidExactlyWhenWellFormed ==
    (callOut.fn = "validate_participant_data") =>
        /\ callOut.is_valid = (callOut.errors = <<>>)
        /\ callOut.is_valid = WellFormedParticipant(callIn.participant)

\* a participant whose number is written in groups is accepted
SpacedNumberAccepted ==
    /\ callOut.fn = "validate_participant_data"
    /\ callOut.is_valid
    /\ \E i \in 1..Len(callIn.participant["mobileNumber"].text) :
           callIn.participant["mobileNumber"].text[i] = " "

\* C16: the text sanitize_input returns never begins with = + - @, tab, carriage
\* return or NUL, whatever whitespace or control characters the input carries in
\* front of such a character.
SanitizedTextIsNoFormula ==
    (callOut.fn = "sanitize_input" /\ callOut.value # <<>>) =>
        callOut.value[1] \notin dangerous_chars

----------------------------------------------------------------------------
(* Properties of the question specification, checked under SpecQuestions *)

\* C17: a question whose scoring gives an answer the outcome next (or continue) has
\* a question of its section that depends on it, and a question no other depends on,
\* the last of its chain, gives every answer it accepts a terminal grade, the
\* all-affirmative answer of a multi-item question included.
NoDanglingContinuation ==
    (callOut.fn = "outcome") =>
        /\ callOut.outcome \in ContinueOutcomes => callOut.dependents # {}
        /\ callOut.dependents = {} => callOut.outcome \in TerminalGrades

\* C18: every id a question's depends_on names is the id of a question of the same
\* section.
DependsOnNamesSectionQuestion ==
    (callOut.fn = "depends_on") => callOut.depends_on \subseteq callOut.question_ids

\* a question of the second path of early_infant_diagnosis, depending on eid_q5
DependsOnResolved ==
    /\ callOut.fn = "depends_on"
    /\ callOut.depends_on = {"eid_q5"}
    /\ "eid_q5" \in callOut.question_ids

\* C19: every name a calculated field's formula uses is the id of a field of the same
\* question.
FormulaNamesAreFieldIds ==
    (callOut.fn = "formula") => callOut.names \subseteq callOut.field_ids

\* C20: the Excel summary, the Excel details sheet, the Word summary and the PDF
\* derive the same identifier for an item of a multi_yes_no question, whatever
\* characters its label holds.
ItemIdIsTheSameEverywhere ==
    (callOut.fn = "item_id") =>
        /\ callOut.summary_sheet = callOut.details_sheet
        /\ callOut.word_summary = callOut.details_sheet
        /\ callOut.pdf = callOut.details_sheet

----------------------------------------------------------------------------
(* Properties of the sessions and of the admin API, checked under SpecAuth *)

\* the session of a logged-in superuser of the running deployment
SuperuserSession ==
    /\ session.session_version = SESSION_VERSION
    /\ session.logged_in
    /\ session.user_role = "superuser"

\* C12: a request to the admin API (the deletions, the reset, the exports and the
\* listings) changes or returns data only for a logged-in superuser session; with no
\* session or a regular user's session it is refused.
AdminApiIsSuperuserOnly ==
    (response.endpoint \in AdminEndpoints /\ ~SuperuserSession) =>
        /\ response.status \in {302, 401, 403}
        /\ ~response.success
        /\ response.rows = {}

\* C15, the states: a login_required route that was reached leaves a session that
\* holds the deployment's session_version, logged_in and a username, as a login set
\* them; a route that was refused answers 401 or a redirect and leaves the session
\* cleared.
ProtectedRouteAnswer ==
    (response.endpoint = "registration") =>
        IF response.refused_by = "login_required"
        THEN /\ response.status \in {401, 302}
             /\ ~response.success
             /\ session = ClearedSession
        ELSE /\ response.status = 200
             /\ session.session_version = SESSION_VERSION
             /\ session.logged_in
             /\ session.username # ""
             /\ \E u \in Users : session = SessionOf(u, SESSION_VERSION)

\* C15, the steps: a session that is cleared (after logout, or never logged in) or
\* that holds another session_version than the deployment's is refused by every
\* login_required route, and only a login with a user's password logs a session in.
ProtectedRouteStep ==
    /\ (response'.endpoint = "registration"
        /\ (session = ClearedSession \/ session.session_version # SESSION_VERSION)) =>
           /\ response'.refused_by = "login_required"
           /\ session' = ClearedSession
    /\ (session'.logged_in /\ session' # session) =>
           /\ response'.endpoint = "login"
           /\ \E u \in Users : session' = SessionOf(u, SESSION_VERSION)

----------------------------------------------------------------------------
(* Properties of the submissions, checked under SpecSubmit *)

\* C13: the assessments table holds at most one row for a facility_name, whatever
\* the interleaving of the submit-assessment requests and the admin's deletions.
OneAssessmentPerFacility ==
    \A r1 \in assessments, r2 \in assessments :
        r1.facility_name = r2.facility_name => r1 = r2

\* C14: a submission answered with success = true and "saved successfully" has its
\* participants or its assessment committed to the database.
SuccessMeansSaved ==
    (response.endpoint \in {"submit_data", "submit_assessment"} /\ response.success) =>
        response.saved

----------------------------------------------------------------------------
(* Properties of cleanup_temp_file, checked under SpecFiles *)

CleanupCalled == callIn.fn = "cleanup_temp_file"

\* the answer of the last call against the directory before and after it
CleanupAnswer ==
    CleanupCalled =>
        LET filepath == callIn.filepath
            before == callIn.files
            after == callOut.files
            existed == filepath \in TempPaths /\ before[filepath] # "absent"
            removed == existed /\ after[filepath] = "absent"
        IN  /\ ~callOut.raised
            /\ callOut.returned <=> removed
            /\ \A other \in TempPaths \ {filepath} : after[other] = before[other]
            /\ ~existed => (~callOut.returned /\ after = before)

\* a call that follows a call on the same path with nothing in between
SecondCleanupStep ==
    (/\ CleanupCalled
     /\ callOut.files = files
     /\ callIn'.fn = "cleanup_temp_file"
     /\ callIn'.filepath = callIn.filepath
     /\ callIn'.files = files
     /\ callOut'.files = files') => ~callOut'.returned

\* C22: cleanup_temp_file returns True exactly when the path existed and the call
\* removed it, and then the file is gone; for an empty or a non-existent path it
\* returns False and changes nothing; it never raises; and a second call on the same
\* path returns False.
CleanupRemovesOnce == [](CleanupAnswer) /\ [][SecondCleanupStep]_vars

\* a temporary file that existed was removed and the call returned True
TempFileRemoved ==
    /\ CleanupCalled
    /\ callOut.returned
    /\ callIn.files[callIn.filepath] = "file"
    /\ files[callIn.filepath] = "absent"

----------------------------------------------------------------------------
(* Properties of rate_limit, checked under SpecRate *)

RECURSIVE RunsBetween(_, _, _, _)
\* how often the view function of endpoint ran for client_ip at the times first..last
RunsBetween(endpoint, client_ip, first, last) ==
    IF first > last THEN 0
    ELSE (IF last \in 0..MaxTime THEN reached[endpoint][client_ip][last] ELSE 0)
         + RunsBetween(endpoint, client_ip, first, last - 1)

\* at most max_requests requests of a client reach the view function of an endpoint
\* within any span shorter than the window
AtMostLimitReachHandler ==
    \A endpoint \in RateLimited, client_ip \in ClientIPs, first \in 0..MaxTime :
        RunsBetween(endpoint, client_ip, first, first + RateWindow - 1)
            <= max_requests[endpoint]

\* the times of the client's list that lie within the window at the time now
RecordedInWindow(client_ip) ==
    LET requests == RequestTimes(rate_limit_data, client_ip)
    IN  Cardinality({i \in 1..Len(requests) : now - requests[i] < RateWindow})

\* a request arriving when the limit is reached, and only then, is refused; a refused
\* request is not recorded and its view function does not run
RateLimitStep ==
    \A w \in Handlers :
        /\ (handlers[w] = IdleHandler /\ handlers'[w] # IdleHandler) =>
               LET request == handlers'[w]
                   limit_reached ==
                       RecordedInWindow(request.client_ip) >= max_requests[request.endpoint]
               IN  /\ request.pc = "refused" <=> limit_reached
                   /\ limit_reached =>
                          /\ reached' = reached
                          /\ Len(RequestTimes(rate_limit_data', request.client_ip))
                                 = RecordedInWindow(request.client_ip)
        /\ (handlers[w] # IdleHandler /\ handlers[w].pc = "refused"
                /\ handlers'[w] # handlers[w]) =>
               /\ reached' = reached
               /\ rate_limit_data' = rate_limit_data

\* C23: for an endpoint decorated with rate_limit(max_requests = N, window = W), at
\* most N requests of one client IP reach the view function within any span shorter
\* than W seconds; a request arriving when the limit is reached is answered 429, does
\* not run the view function and is not recorded.
RateLimitHolds == [](AtMostLimitReachHandler) /\ [][RateLimitStep]_vars

\* C27: a client is refused with 429 by an endpoint with limit N only while at least
\* N of its own requests to that endpoint lie within the window: the requests it
\* makes to another rate-limited endpoint do not use up the endpoint's quota.
RefusedOnlyByOwnRequests ==
    \A w \in Handlers :
        (handlers[w] # IdleHandler /\ handlers[w].pc = "refused") =>
            LET request == handlers[w]
            IN  RunsBetween(request.endpoint, request.client_ip,
                            request.current_time - RateWindow + 1, request.current_time)
                    >= max_requests[request.endpoint]

----------------------------------------------------------------------------
(* Validation against submission, checked under Spec *)

\* C24: every payload that validate_assessment_data accepts is processed by
\* submit-assessment without an internal error: with a scores map the validator
\* accepts, string answers included, the overall-score computation does not raise
\* and the request is not answered with status 500.
AcceptedPayloadIsProcessed ==
    (response.endpoint = "submit_assessment" /\ ValidateAssessmentData(scores)) =>
        /\ ~response.overall.raised
        /\ response.status # 500

----------------------------------------------------------------------------
(* The report paths against each other, checked under Spec *)

\* two reports in a row are made from the same payload (no action changes scores or
\* section_definitions): the Excel summary, the Word summary, the report
\* submit-assessment emails and the report download-assessment returns
SameAggregateStep ==
    (SummaryDone /\ SummaryDone') =>
        /\ summary'.percentage = summary.percentage
        /\ summary'.performance = summary.performance

\* C25: all report paths compute the same aggregate: for the same payload the overall
\* percentage and the performance band of the Excel summary, the Word summary, the
\* emailed report and the downloaded report are equal.
ReportPathsAgree == [][SameAggregateStep]_vars

----------------------------------------------------------------------------
(* Properties of the section detection, checked under SpecDetect *)

\* C26: with section_definitions = TOOL_SECTIONS, a scores map whose keys all belong
\* to one section S (S itself or keys starting with S + '_') is detected as a
\* section-specific download of S and of no other section, whether S's key extends
\* another section's key or S holds an item id equal to another section's key.
SectionDetectedAsItself ==
    /\ callOut.fn = "create_assessment_excel" =>
           /\ callOut.is_section_download
           /\ callOut.sections_with_data = <<callIn.section>>
    /\ callOut.fn = "create_section_pdf" =>
           /\ ~callOut.raised
           /\ callOut.section_key = callIn.section

====
